---- MODULE Spec2Model ----
(***************************************************************************)
(* Verification model of pinpoint-openwrt:                                 *)
(*   - scripts/pinpoint-update.py : the update pipeline (update_all) and   *)
(*     the device routing rule compiler (clean_device_rules,               *)
(*     generate_device_rules) driving the nft packet filter;               *)
(*   - backend/main.py : the device, tunnel and subscription handlers;     *)
(*   - backend/tunnels.py : the sing-box config generator.                 *)
(*                                                                         *)
(* Strings the code takes apart (device names, ids, set names) are         *)
(* sequences of characters; other strings are atoms.                       *)
(***************************************************************************)
EXTENDS Integers, Sequences, FiniteSets, TLC

VARIABLES
    devices,        \* devices.json: the "devices" list
    servicesFile,   \* whether services.json exists
    lists,          \* data/lists/<service>.txt: service id -> set of CIDR lines ({} = no file)
    nft,            \* packet filter table inet pinpoint: [chain, sets]
    compiled,       \* TRUE iff the last handler ran generate_device_rules to its end
    running,        \* invoker -> stage of its update_all invocation ("idle" when none)
    handles,        \* invoker -> handles_to_delete parsed by its clean_device_rules
    crontab,        \* /etc/crontabs/root: the time of the pinpoint-update.py line, or None
    tunnels,        \* tunnels.json
    groups,         \* groups.json
    subscriptions,  \* subscriptions.json
    routing_rules,  \* routing_rules.json: [default_outbound, rules]
    active_outbound,\* settings.json: active_outbound
    config,         \* outcome of the last generate_singbox_config call
    group_outbounds,\* the group outbounds that call built (loop of lines 1000-1003)
    last,           \* the last tunnel/subscription handler that ran, with its argument
    singbox,        \* /etc/sing-box: config.json, its backup, and what the last apply returned
    parser          \* the last parser call: function, input and what it returned

vars == <<devices, servicesFile, lists, nft, compiled, running, handles, crontab,
          tunnels, groups, subscriptions, routing_rules, active_outbound, config,
          group_outbounds, last, singbox, parser>>

devVars == <<devices, servicesFile, lists, nft, compiled>>
runVars == <<running, handles, crontab>>
tunVars == <<tunnels, groups, subscriptions, routing_rules, active_outbound, config,
            group_outbounds, last, singbox, parser>>

(***************************************************************************)
(* Bounds                                                                  *)
(***************************************************************************)
MaxDevices == 2
MaxPipelineDevices == 1
MaxTunnels == 3
MaxRules == 2
MaxLinkLen == 4
MaxEntries == 3
MaxChainLen == 4
MaxNamedDevices == 3

None == "None"

(***************************************************************************)
(* Sequence helpers                                                        *)
(***************************************************************************)
Range(s) == {s[i] : i \in 1..Len(s)}

RECURSIVE SetToSeq(_)
SetToSeq(S) == IF S = {} THEN <<>>
               ELSE LET x == CHOOSE x \in S : TRUE IN <<x>> \o SetToSeq(S \ {x})

Max(S) == CHOOSE x \in S : \A y \in S : y <= x

(***************************************************************************)
(* Input domains of the device handlers                                    *)
(***************************************************************************)
Names == {<<"T", "v">>}
IPs == {"192.168.1.10", "192.168.1.11"}
Modes == {"default", "vpn_all", "direct_all", "custom"}
Contents ==
    { [services |-> <<>>,     custom_domains |-> <<>>,     custom_ips |-> <<>>],
      [services |-> <<"s1">>, custom_domains |-> <<>>,     custom_ips |-> <<"c1">>],
      [services |-> <<>>,     custom_domains |-> <<"d1">>, custom_ips |-> <<>>] }

(***************************************************************************)
(* services.json (fixed content): s1 has one downloadable source, s2 has   *)
(* only static ip_ranges.                                                  *)
(***************************************************************************)
Services ==
    << [id |-> "s1", enabled |-> TRUE, domains |-> {"d2"}, custom_domains |-> {},
        custom_ips |-> {"c3"}, ip_ranges |-> {},
        sources |-> <<[url |-> "u1", type |-> "auto"]>>],
       [id |-> "s2", enabled |-> TRUE, domains |-> {}, custom_domains |-> {},
        custom_ips |-> {"c4"}, ip_ranges |-> {"c5"}, sources |-> <<>>] >>
ServiceIds == {Services[i].id : i \in 1..Len(Services)}
\* what the content behind each source URL can hold: CIDRs, or domains for a
\* source of type 'domains'
SourceCidrs == [u1 |-> {"c2"}, a |-> {"a1", "a2"}, b |-> {"b1"}, c |-> {"e1"}]
essential_ranges == {"ess"}
Dests == {"c1", "c2", "c3", "c4", "c5", "ess", "other"}

\* a file is <<>> when it does not exist and <<content>> when it does
NoFiles == [config |-> <<>>, backup |-> <<>>, returned |-> None]
NoCall == [fn |-> None, input |-> <<>>, result |-> <<>>, raised |-> FALSE]

(***************************************************************************)
(* create_device: slug of the name                                         *)
(***************************************************************************)
Lower(c) == CASE c = "T" -> "t" [] c = "V" -> "v" [] OTHER -> c
IsSlugChar(c) == c \in {"t", "v", "a", "b", "0", "1", "2", "3", "4", "5", "6", "7", "8", "9"}
IsWordChar(c) == IsSlugChar(c) \/ c \in {"T", "V", "_"}
Slug(name) == [i \in 1..Len(name) |->
                 IF IsSlugChar(Lower(name[i])) THEN Lower(name[i]) ELSE "_"]
Digits == <<"1", "2", "3", "4", "5", "6", "7", "8", "9">>
Suffixed(base_id, counter) == base_id \o <<"_", Digits[counter]>>

RECURSIVE UniqueId(_, _, _, _)
UniqueId(device_id, base_id, counter, existing_ids) ==
    IF device_id \in existing_ids
    THEN UniqueId(Suffixed(base_id, counter), base_id, counter + 1, existing_ids)
    ELSE device_id

(***************************************************************************)
(* nft: the packet filter commands the compiler issues                     *)
(***************************************************************************)
DeviceMarker == "pinpoint: device"
AnyAddr == "any"
NoSet == <<>>

GlobalRules ==
    << [handle |-> 1, saddr |-> AnyAddr, daddr |-> <<"tunnel_ips">>,
        verdict |-> "mark", comment |-> <<>>],
       [handle |-> 2, saddr |-> AnyAddr, daddr |-> <<"tunnel_nets">>,
        verdict |-> "mark", comment |-> <<>>] >>

NftInit == [chain |-> GlobalRules,
            sets  |-> [n \in {<<"tunnel_ips">>, <<"tunnel_nets">>} |-> {}]]

\* nft gives every new rule a handle no rule ever had. Handles are only compared
\* for equality, against the handles a cleanup pass has parsed; the model takes
\* the smallest number that is neither in the chain nor among the parsed ones.
FreshHandle(n, reserved) ==
    LET used == {n.chain[i].handle : i \in 1..Len(n.chain)} \cup reserved
    IN CHOOSE h \in 1..(Cardinality(used) + 1) :
          h \notin used /\ \A g \in 1..(h - 1) : g \in used

NftAddRule(n, r, reserved) ==
    IF r.daddr # NoSet /\ r.daddr \notin DOMAIN n.sets
    THEN n
    ELSE [n EXCEPT !.chain = Append(@, [r EXCEPT !.handle = FreshHandle(n, reserved)])]

NftDeleteRule(n, handle) ==
    [n EXCEPT !.chain = SelectSeq(@, LAMBDA r : r.handle # handle)]

NftAddSet(n, set_name) ==
    IF set_name \in DOMAIN n.sets THEN n
    ELSE [n EXCEPT !.sets = [s \in DOMAIN n.sets \cup {set_name} |->
                               IF s \in DOMAIN n.sets THEN n.sets[s] ELSE {}]]

NftAddElement(n, set_name, cidr) ==
    IF set_name \in DOMAIN n.sets
    THEN [n EXCEPT !.sets[set_name] = @ \cup {cidr}]
    ELSE n

NftFlushSet(n, set_name) ==
    IF set_name \in DOMAIN n.sets
    THEN [n EXCEPT !.sets[set_name] = {}]
    ELSE n

SetInUse(n, set_name) == \E i \in 1..Len(n.chain) : n.chain[i].daddr = set_name

NftDeleteSet(n, set_name) ==
    IF set_name \in DOMAIN n.sets /\ ~SetInUse(n, set_name)
    THEN [n EXCEPT !.sets = [s \in DOMAIN n.sets \ {set_name} |-> n.sets[s]]]
    ELSE n

RECURSIVE NftAddElements(_, _, _)
NftAddElements(n, set_name, cidrs) ==
    IF cidrs = {} THEN n
    ELSE LET c == CHOOSE c \in cidrs : TRUE
         IN NftAddElements(NftAddElement(n, set_name, c), set_name, cidrs \ {c})

(***************************************************************************)
(* clean_device_rules                                                      *)
(***************************************************************************)
HasDeviceMarker(r) == Len(r.comment) > 0 /\ r.comment[1] = DeviceMarker

\* Mutant: the handle of every listed rule is collected, marker or not.
HandlesToDelete_AllRules(n) == [i \in 1..Len(n.chain) |-> n.chain[i].handle]

\* handles_to_delete: the handles of the listed lines that carry the marker
HandlesToDelete(n) ==
    LET marked == SelectSeq(n.chain, HasDeviceMarker)
    IN [i \in 1..Len(marked) |-> marked[i].handle]

Reversed(s) == [i \in 1..Len(s) |-> s[Len(s) + 1 - i]]

RECURSIVE DeleteRules(_, _)
DeleteRules(n, hs) ==
    IF hs = <<>> THEN n ELSE DeleteRules(NftDeleteRule(n, Head(hs)), Tail(hs))

\* 'set device_' in line, then re.search(r'set (device_\w+)', line)
IsDeviceSetName(set_name) ==
    /\ Len(set_name) > 1
    /\ set_name[1] = "device_"
    /\ \A i \in 2..Len(set_name) : IsWordChar(set_name[i])

RECURSIVE DeleteSets(_, _)
DeleteSets(n, names) ==
    IF names = {} THEN n
    ELSE LET s == CHOOSE s \in names : TRUE
         IN DeleteSets(NftDeleteSet(n, s), names \ {s})

CleanSets(n) == DeleteSets(n, {s \in DOMAIN n.sets : IsDeviceSetName(s)})

\* The cleanup pass when one of its nft commands fails (returns non-zero and
\* changes nothing): the listing of the chain, the first rule deletion, the
\* listing of the sets or the first set deletion.  Only the return codes of the
\* two listings are read.
CleanupCommands == {"list_chain", "delete_rule", "list_sets", "delete_set"}

CleanDeviceRules(n, failed) ==
    IF failed = "list_chain" THEN n
    ELSE LET hs == Reversed(HandlesToDelete(n))
             deleted == DeleteRules(n, IF failed = "delete_rule" /\ hs # <<>>
                                       THEN Tail(hs) ELSE hs)
             names == {s \in DOMAIN deleted.sets : IsDeviceSetName(s)}
         IN IF failed = "list_sets" THEN deleted
            ELSE DeleteSets(deleted, IF failed = "delete_set" /\ names # {}
                                     THEN names \ {CHOOSE s \in names : TRUE}
                                     ELSE names)

\* Mutant: the cleanup pass deletes the device sets but leaves the rules.
clean_device_rules_KeepRules(n) == CleanSets(n)

clean_device_rules(n) == CleanDeviceRules(n, None)

(***************************************************************************)
(* generate_device_rules                                                   *)
(***************************************************************************)
ReplaceDash(id) == [i \in 1..Len(id) |-> IF id[i] = "-" THEN "_" ELSE id[i]]
SetName(device_id) == <<"device_">> \o ReplaceDash(device_id)

services_data(svc_id) ==
    LET hit == {i \in 1..Len(Services) : Services[i].id = svc_id}
    IN IF hit = {} THEN [domains |-> {}, custom_domains |-> {}, custom_ips |-> {}]
       ELSE Services[Max(hit)]

ListFile(ls, svc_id) == IF svc_id \in DOMAIN ls THEN ls[svc_id] ELSE {}

device_domains(device) ==
    Range(device.custom_domains) \cup
    UNION {services_data(s).domains \cup services_data(s).custom_domains :
           s \in Range(device.services)}

\* Mutant: the custom IPs and list files of every service are collected.
device_cidrs_AllServices(device, ls) ==
    Range(device.custom_ips) \cup
    UNION {Services[i].custom_ips \cup ListFile(ls, Services[i].id) : i \in 1..Len(Services)}

device_cidrs(device, ls) ==
    Range(device.custom_ips) \cup
    UNION {services_data(s).custom_ips \cup ListFile(ls, s) : s \in Range(device.services)}

\* Mutant: a custom-mode device gets its set and rules even when it has nothing.
HasCustomSet_Always(device, ls) == TRUE

HasCustomSet(device, ls) ==
    device_domains(device) # {} \/ device_cidrs(device, ls) # {} \/ device.services # <<>>

SimpleRule(device) ==
    IF device.mode = "vpn_all"
    THEN [handle |-> 0, saddr |-> device.ip, daddr |-> NoSet, verdict |-> "mark",
          comment |-> <<DeviceMarker, device.id, "vpn_all">>]
    ELSE [handle |-> 0, saddr |-> device.ip, daddr |-> NoSet, verdict |-> "return",
          comment |-> <<DeviceMarker, device.id, "direct_all">>]

RECURSIVE ApplySimpleRules(_, _, _)
ApplySimpleRules(n, ds, reserved) ==
    IF ds = <<>> THEN n
    ELSE ApplySimpleRules(NftAddRule(n, SimpleRule(Head(ds)), reserved), Tail(ds), reserved)

\* device_sets[device_id] = {...}: a dict keeps the position of a key's first insertion
RECURSIVE DictPut(_, _)
DictPut(d, e) ==
    IF d = <<>> THEN <<e>>
    ELSE IF Head(d).id = e.id THEN <<e>> \o Tail(d)
    ELSE <<Head(d)>> \o DictPut(Tail(d), e)

RECURSIVE device_sets(_, _)
device_sets(ds, ls) ==
    IF ds = <<>> THEN <<>>
    ELSE LET d == ds[Len(ds)]
             before == device_sets(SubSeq(ds, 1, Len(ds) - 1), ls)
         IN IF d.mode = "custom" /\ HasCustomSet(d, ls)
            THEN DictPut(before, [id |-> d.id, set_name |-> SetName(d.id), ip |-> d.ip,
                                  cidrs |-> device_cidrs(d, ls)])
            ELSE before

ApplyCustomDevice(n, dev_data, reserved) ==
    LET n1 == NftAddSet(n, dev_data.set_name)
        n2 == NftAddElements(n1, dev_data.set_name, dev_data.cidrs)
        n3 == NftAddRule(n2, [handle |-> 0, saddr |-> dev_data.ip,
                              daddr |-> dev_data.set_name, verdict |-> "mark",
                              comment |-> <<DeviceMarker, dev_data.id, "custom">>], reserved)
    IN NftAddRule(n3, [handle |-> 0, saddr |-> dev_data.ip, daddr |-> NoSet,
                       verdict |-> "return",
                       comment |-> <<DeviceMarker, dev_data.id, "skip global">>], reserved)

RECURSIVE ApplyCustomDevices(_, _, _)
ApplyCustomDevices(n, sets, reserved) ==
    IF sets = <<>> THEN n
    ELSE ApplyCustomDevices(ApplyCustomDevice(n, Head(sets), reserved), Tail(sets), reserved)

\* Mutant: the enabled flag is ignored.
enabled_devices_All(ds) == ds

enabled_devices(ds) == SelectSeq(ds, LAMBDA d : d.enabled)

\* Mutant: the custom devices' rules are added before the vpn_all/direct_all ones.
compile_device_rules_CustomFirst(n, ds, ls, reserved) ==
    LET simple == SelectSeq(SelectSeq(ds, LAMBDA d : d.enabled),
                            LAMBDA d : d.mode \in {"vpn_all", "direct_all"})
    IN ApplySimpleRules(ApplyCustomDevices(n, device_sets(SelectSeq(ds, LAMBDA d : d.enabled), ls),
                                           reserved),
                        simple, reserved)

\* The part of generate_device_rules after the cleanup: the vpn_all and direct_all
\* rules in device order, then set, elements and two rules per custom device.
compile_device_rules(n, ds, ls, reserved) ==
    LET simple == SelectSeq(enabled_devices(ds),
                            LAMBDA d : d.mode \in {"vpn_all", "direct_all"})
    IN ApplyCustomDevices(ApplySimpleRules(n, simple, reserved),
                          device_sets(enabled_devices(ds), ls), reserved)

generate_device_rules(n, ds, ls) ==
    compile_device_rules(clean_device_rules(n), ds, ls, {})

\* generate_device_rules when a command of its cleanup pass fails
GenerateDeviceRules(n, ds, ls, failed) ==
    compile_device_rules(CleanDeviceRules(n, failed), ds, ls, {})

(***************************************************************************)
(* update_all and its stages                                               *)
(***************************************************************************)
\* What the sources of the enabled services deliver in one run: the CIDRs
\* parsed from the successful downloads ({} when every download failed).
\* download_file(url): None when the download failed, else the content, here
\* the items parse_content finds in it
DownloadsOf(urls) ==
    [urls -> {[ok |-> FALSE, items |-> {}]}
             \cup UNION {{[ok |-> TRUE, items |-> items] : items \in SUBSET SourceCidrs[url] \ {{}}}
                         : url \in urls}]

SourceUrls(svcs) ==
    UNION {{svcs[i].sources[j].url : j \in 1..Len(svcs[i].sources)} : i \in 1..Len(svcs)}

Downloads == {dl \in DownloadsOf(SourceUrls(Services)) :
                \A url \in DOMAIN dl : dl[url].items \subseteq SourceCidrs[url]}

\* the files of the lists directory: <id> is <id>.txt, DomainsFile(id) is <id>_domains.txt
DomainsFile(service_id) == service_id \o "_domains"
WriteFile(ls, file, content) ==
    [f \in DOMAIN ls \cup {file} |-> IF f = file THEN content ELSE ls[f]]

process_service(ls, service, dl) ==
    IF ~service.enabled THEN ls
    ELSE LET all_domains == service.domains \cup service.custom_domains
             sources == service.sources
             content == {i \in 1..Len(sources) : dl[sources[i].url].ok}
             extra_domains == UNION {dl[sources[i].url].items :
                                       i \in {j \in content : sources[j].type = "domains"}}
             all_cidrs == UNION {dl[sources[i].url].items :
                                   i \in {j \in content : sources[j].type # "domains"}}
                          \cup service.ip_ranges
             saved == IF all_domains # {}
                      THEN WriteFile(ls, DomainsFile(service.id), all_domains)
                      ELSE ls
             updated == IF extra_domains # {}
                        THEN WriteFile(saved, DomainsFile(service.id),
                                       all_domains \cup extra_domains)
                        ELSE saved
         IN IF all_cidrs # {} THEN WriteFile(updated, service.id, all_cidrs) ELSE updated

RECURSIVE process_services(_, _, _)
process_services(ls, svcs, dl) ==
    IF svcs = <<>> THEN ls
    ELSE process_services(process_service(ls, Head(svcs), dl), Tail(svcs), dl)

StaticFile(service) == service.ip_ranges \cup service.custom_ips

load_nftables_sets(n, ls) ==
    LET enabled_services == {i \in 1..Len(Services) : Services[i].enabled}
        cidrs == UNION {ListFile(ls, Services[i].id) \cup StaticFile(Services[i]) :
                        i \in enabled_services}
    IN NftAddElements(NftFlushSet(n, <<"tunnel_nets">>), <<"tunnel_nets">>,
                      cidrs \cup essential_ranges)

\* update_all returns 1 before any stage when services.json is missing
update_all_lists(ls, exists, dl) ==
    IF exists THEN process_services(ls, Services, dl) ELSE ls

update_all_nft(n, ds, ls, exists) ==
    IF exists THEN generate_device_rules(load_nftables_sets(n, ls), ds, ls) ELSE n

\* apply_device_routing(): run_command([... "pinpoint-update.py", "update"])
apply_device_routing(ds) ==
    \E dl \in Downloads :
        /\ lists' = update_all_lists(lists, servicesFile, dl)
        /\ nft' = update_all_nft(nft, ds, lists', servicesFile)
        /\ compiled' = servicesFile

Idle == \A p \in DOMAIN running : running[p] = "idle"

(***************************************************************************)
(* Device handlers of backend/main.py                                      *)
(***************************************************************************)
\* Mutant: the id is the slug of the name, taken or not.
NewDeviceId_SlugOnly(name, existing_ids) == Slug(name)

NewDeviceId(name, existing_ids) == UniqueId(Slug(name), Slug(name), 1, existing_ids)

NewDevice(name, ip, mode, content, existing_ids) ==
    [id |-> NewDeviceId(name, existing_ids),
     name |-> name, ip |-> ip, mode |-> mode,
     services |-> content.services,
     custom_domains |-> content.custom_domains,
     custom_ips |-> content.custom_ips,
     enabled |-> TRUE]

StoreCreate(name, ip, mode, content) ==
    /\ Len(devices) < MaxDevices
    /\ devices' = Append(devices, NewDevice(name, ip, mode, content,
                                           {devices[i].id : i \in 1..Len(devices)}))

create_device(name, ip, mode, content) ==
    /\ Idle
    /\ StoreCreate(name, ip, mode, content)
    /\ apply_device_routing(devices')
    /\ UNCHANGED <<servicesFile, runVars, tunVars>>

\* DeviceUpdate: every field is optional; a field that is None (here: absent from
\* the record) is left alone
DeviceUpdates ==
    {[ip |-> ip] : ip \in IPs}
    \cup {[mode |-> m] : m \in Modes}
    \cup {[services |-> c.services, custom_domains |-> c.custom_domains,
           custom_ips |-> c.custom_ips] : c \in Contents}
    \cup {[enabled |-> e] : e \in BOOLEAN}

Updated(device, update) ==
    [f \in DOMAIN device |-> IF f \in DOMAIN update THEN update[f] ELSE device[f]]

FirstIndex(ds, device_id) ==
    IF \E i \in 1..Len(ds) : ds[i].id = device_id
    THEN CHOOSE i \in 1..Len(ds) :
            ds[i].id = device_id /\ \A j \in 1..(i - 1) : ds[j].id # device_id
    ELSE 0

StoreUpdate(device_id, update) ==
    /\ FirstIndex(devices, device_id) # 0
    /\ devices' = [devices EXCEPT ![FirstIndex(devices, device_id)] = Updated(@, update)]

update_device(device_id, update) ==
    /\ Idle
    /\ StoreUpdate(device_id, update)
    /\ apply_device_routing(devices')
    /\ UNCHANGED <<servicesFile, runVars, tunVars>>

StoreDelete(device_id) ==
    /\ FirstIndex(devices, device_id) # 0
    /\ LET i == FirstIndex(devices, device_id)
       IN devices' = SubSeq(devices, 1, i - 1) \o SubSeq(devices, i + 1, Len(devices))

delete_device(device_id) ==
    /\ Idle
    /\ StoreDelete(device_id)
    /\ apply_device_routing(devices')
    /\ UNCHANGED <<servicesFile, runVars, tunVars>>

\* POST /api/update
update_lists ==
    /\ Idle
    /\ apply_device_routing(devices)
    /\ UNCHANGED <<devices, servicesFile, runVars, tunVars>>

(***************************************************************************)
(* backend/tunnels.py: the sing-box config generator.  A tag is the         *)
(* sequence of the pieces it is formatted from.                            *)
(***************************************************************************)
DirectOut == <<"direct-out">>
TunnelTag(t) == <<t.type, "-", t.id>>

\* for t_id in group["tunnels"]: the first tunnel with that id that is enabled
RECURSIVE tunnel_tags(_, _)
tunnel_tags(member_ids, ts) ==
    IF member_ids = <<>> THEN <<>>
    ELSE LET hit == {i \in 1..Len(ts) : ts[i].id = Head(member_ids) /\ ts[i].enabled}
             rest == tunnel_tags(Tail(member_ids), ts)
         IN IF hit = {} THEN rest
            ELSE <<TunnelTag(ts[CHOOSE i \in hit : \A j \in hit : i <= j])>> \o rest

\* Mutant: the member loop does not look at the enabled flag.
generate_group_outbound_AnyMember(group, ts) ==
    LET member(t_id) == {i \in 1..Len(ts) : ts[i].id = t_id}
        ids == SelectSeq(group.tunnels, LAMBDA t_id : member(t_id) # {})
    IN [type |-> IF group.type = "selector" THEN "selector" ELSE "urltest",
        tag |-> group.tag,
        outbounds |-> [k \in 1..Len(ids) |->
                         TunnelTag(ts[CHOOSE i \in member(ids[k]) :
                                        \A j \in member(ids[k]) : i <= j])],
        interval |-> group.interval,
        tolerance |-> IF group.type = "urltest" THEN group.tolerance ELSE None,
        default |-> None]

generate_group_outbound(group, ts) ==
    LET tags == tunnel_tags(group.tunnels, ts)
    IN IF group.type = "urltest"
       THEN [type |-> "urltest", tag |-> group.tag, outbounds |-> tags,
             interval |-> group.interval, tolerance |-> group.tolerance, default |-> None]
       ELSE IF group.type = "fallback"
       THEN [type |-> "urltest", tag |-> group.tag, outbounds |-> tags,
             interval |-> group.interval, tolerance |-> None, default |-> None]
       ELSE [type |-> "selector", tag |-> group.tag, outbounds |-> tags,
             interval |-> None, tolerance |-> None,
             default |-> IF tags # <<>> THEN tags[1] ELSE DirectOut]

enabled_tunnels(ts) == SelectSeq(ts, LAMBDA t : t.enabled)

TunnelOutbounds(ts) ==
    [i \in 1..Len(enabled_tunnels(ts)) |->
        [type |-> enabled_tunnels(ts)[i].type, tag |-> TunnelTag(enabled_tunnels(ts)[i])]]

GroupOutbounds(gs, ts) == [i \in 1..Len(gs) |-> generate_group_outbound(gs[i], ts)]

Outbounds(ts, gs) ==
    <<[type |-> "direct", tag |-> DirectOut]>>
    \o TunnelOutbounds(ts)
    \o [i \in 1..Len(SelectSeq(GroupOutbounds(gs, ts), LAMBDA g : g.outbounds # <<>>)) |->
          LET g == SelectSeq(GroupOutbounds(gs, ts), LAMBDA x : x.outbounds # <<>>)[i]
          IN [type |-> g.type, tag |-> g.tag]]

valid_tags(ts, gs) == {Outbounds(ts, gs)[i].tag : i \in 1..Len(Outbounds(ts, gs))}

\* a domain is the sequence of its characters
RECURSIVE LStrip(_)
LStrip(d) == IF d # <<>> /\ Head(d) = " " THEN LStrip(Tail(d)) ELSE d
Strip(d) == Reversed(LStrip(Reversed(LStrip(d))))
LowerStr(d) == [i \in 1..Len(d) |-> Lower(d[i])]
StartsWith(d, prefix) == Len(d) >= Len(prefix) /\ SubSeq(d, 1, Len(prefix)) = prefix
Drop(d, k) == SubSeq(d, k + 1, Len(d))

singbox_rule(rule) ==
    LET ds == [i \in 1..Len(rule.domains) |-> LowerStr(Strip(rule.domains[i]))]
        wild(d) == StartsWith(d, <<"*", ".">>)
        dot(d) == ~wild(d) /\ StartsWith(d, <<".">>)
        sfx == SelectSeq(ds, LAMBDA d : wild(d) \/ dot(d))
    IN [outbound |-> rule.outbound,
        inbound |-> <<>>,
        domain |-> SelectSeq(ds, LAMBDA d : ~wild(d) /\ ~dot(d)),
        domain_suffix |-> [i \in 1..Len(sfx) |->
                             IF wild(sfx[i]) THEN Drop(sfx[i], 2) ELSE Drop(sfx[i], 1)],
        domain_keyword |-> rule.domain_keywords]

HasMatchers(r) == r.domain # <<>> \/ r.domain_suffix # <<>> \/ r.domain_keyword # <<>>

\* the rules the loop of lines 1010-1048 passes to config["route"]["rules"].append
RuleAppends(rr, valid) ==
    LET honoured == SelectSeq(rr.rules,
                      LAMBDA rule : /\ rule.enabled
                                    /\ rule.outbound # None
                                    /\ rule.outbound \in valid
                                    /\ HasMatchers(singbox_rule(rule)))
    IN [i \in 1..Len(honoured) |-> singbox_rule(honoured[i])]

TunInRule(tag) == [outbound |-> tag, inbound |-> <<"tun-in">>, domain |-> <<>>,
                   domain_suffix |-> <<>>, domain_keyword |-> <<>>]

\* lines 1050-1068: the default rule passed to append, if any
DefaultAppends(ts, rr, active, valid) ==
    LET default_outbound == IF rr.default_outbound # None THEN rr.default_outbound
                            ELSE IF active # None THEN active
                            ELSE None
    IN IF default_outbound # None /\ default_outbound \in valid
       THEN <<TunInRule(default_outbound)>>
       ELSE IF enabled_tunnels(ts) # <<>>
       THEN <<TunInRule(TunnelTag(enabled_tunnels(ts)[1]))>>
       ELSE <<>>

\* Mutant: the base config is kept between calls, so the outbounds of the call
\* before are still in it.
generate_singbox_config_KeepsBase(ts, gs, active, rr) ==
    LET valid == valid_tags(ts, gs)
        appends == RuleAppends(rr, valid) \o DefaultAppends(ts, rr, active, valid)
        base == IF last.op = "generate" THEN config.outbounds ELSE <<>>
    IN IF appends # <<>>
       THEN [error |-> "KeyError", appending |-> <<appends[1]>>,
             outbounds |-> <<>>, route_rules |-> <<>>]
       ELSE [error |-> None, appending |-> <<>>,
             outbounds |-> base \o Outbounds(ts, gs), route_rules |-> <<>>]

\* config["route"] is {"auto_detect_interface": True}: it has no "rules" key, so
\* the first config["route"]["rules"].append(...) raises KeyError.
generate_singbox_config(ts, gs, active, rr) ==
    LET valid == valid_tags(ts, gs)
        appends == RuleAppends(rr, valid) \o DefaultAppends(ts, rr, active, valid)
    IN IF appends # <<>>
       THEN [error |-> "KeyError", appending |-> <<appends[1]>>,
             outbounds |-> <<>>, route_rules |-> <<>>]
       ELSE [error |-> None, appending |-> <<>>,
             outbounds |-> Outbounds(ts, gs), route_rules |-> <<>>]

DeviceIds == {devices[i].id : i \in 1..Len(devices)}

Invokers == {"api", "cron"}

InitRun ==
    /\ running = [p \in Invokers |-> "idle"]
    /\ handles = [p \in Invokers |-> <<>>]
    /\ crontab = None

InitDev ==
    /\ devices = <<>>
    /\ servicesFile \in BOOLEAN
    /\ lists = [s \in ServiceIds |-> {}]
    /\ nft = NftInit
    /\ compiled = FALSE

InitTun ==
    /\ tunnels = <<>>
    /\ groups = <<>>
    /\ subscriptions = <<>>
    /\ routing_rules = [default_outbound |-> None, rules |-> <<>>]
    /\ active_outbound = None
    /\ config = None
    /\ group_outbounds = <<>>
    /\ last = [op |-> None, arg |-> None, before |-> <<>>, fetches |-> <<>>]
    /\ singbox = NoFiles
    /\ parser = NoCall

Init == InitDev /\ InitRun /\ InitTun

Next ==
    \/ \E name \in Names, ip \in IPs, mode \in Modes, content \in Contents :
          create_device(name, ip, mode, content)
    \/ \E device_id \in DeviceIds, update \in DeviceUpdates : update_device(device_id, update)
    \/ \E device_id \in DeviceIds : delete_device(device_id)
    \/ update_lists

Spec == Init /\ [][Next]_vars

(***************************************************************************)
(* Observations on the packet filter                                       *)
(***************************************************************************)
Content(r) == [r EXCEPT !.handle = 0]
ChainContent(n) == [i \in 1..Len(n.chain) |-> Content(n.chain[i])]
DeviceSetsOf(n) == [s \in {x \in DOMAIN n.sets : x[1] = "device_"} |-> n.sets[s]]
RulesOf(n, P(_)) == SelectSeq(n.chain, P)

\* The mark a packet leaves the prerouting chain with: rules are evaluated in
\* order, a mark rule sets the mark and continues, a return rule ends the chain.
RECURSIVE Marked(_, _, _, _, _)
Marked(n, i, saddr, daddr, mark) ==
    IF i > Len(n.chain) THEN mark
    ELSE LET r == n.chain[i]
             matches == /\ r.saddr \in {AnyAddr, saddr}
                        /\ r.daddr # NoSet => (r.daddr \in DOMAIN n.sets /\ daddr \in n.sets[r.daddr])
         IN IF ~matches THEN Marked(n, i + 1, saddr, daddr, mark)
            ELSE IF r.verdict = "return" THEN mark
            ELSE Marked(n, i + 1, saddr, daddr, TRUE)

TunnelMark(n, saddr, daddr) == Marked(n, 1, saddr, daddr, FALSE)

(***************************************************************************)
(* Device routing rule compiler: properties                                *)
(***************************************************************************)
EnabledIn(mode) == {i \in 1..Len(devices) : devices[i].enabled /\ devices[i].mode = mode}
HasContent(d) == d.services # <<>> \/ d.custom_domains # <<>> \/ d.custom_ips # <<>>
IsMarkSetRule(r) == r.verdict = "mark" /\ r.daddr # NoSet /\ r.saddr # AnyAddr
IsReturnRule(r) == r.verdict = "return" /\ r.daddr = NoSet
RulesFor(n, device_id) ==
    SelectSeq(n.chain, LAMBDA r : HasDeviceMarker(r) /\ r.comment[2] = device_id)

\* The device stores a second run may find: the stored one, or one of its
\* devices disabled or removed since the rules of nft were generated.
StoreVariants ==
    {devices}
    \cup {[devices EXCEPT ![i].enabled = FALSE] : i \in 1..Len(devices)}
    \cup {SubSeq(devices, 1, i - 1) \o SubSeq(devices, i + 1, Len(devices)) :
            i \in 1..Len(devices)}

\* C1: regeneration is idempotent. For fixed devices, services and list files,
\* running generate_device_rules twice in a row leaves the prerouting chain
\* (rule contents in order) and the device_* sets as running it once does,
\* whatever rules an earlier run left in the chain.
C1_RegenerationIdempotent ==
    \A ds \in StoreVariants :
        LET once == generate_device_rules(nft, ds, lists)
            twice == generate_device_rules(once, ds, lists)
        IN /\ ChainContent(twice) = ChainContent(once)
           /\ DeviceSetsOf(twice) = DeviceSetsOf(once)

\* C1 witness: a compiled chain holding the two rules of a custom-mode device,
\* on which the second run acts.
C1_Witness ==
    /\ compiled
    /\ \E i \in EnabledIn("custom") :
          /\ Len(RulesFor(nft, devices[i].id)) = 2
          /\ Len(RulesFor(generate_device_rules(nft, devices, lists), devices[i].id)) = 2

\* C2 (as claimed): for an enabled custom-mode device that got its rules and
\* shares its IP with no other device, a packet from its IP leaves the
\* prerouting chain marked only when its destination is in the device's set.
C2_CustomMarkedOnlyForOwnSet ==
    compiled =>
        \A i \in EnabledIn("custom") :
            (/\ HasContent(devices[i])
             /\ \A j \in 1..Len(devices) : j # i => devices[j].ip # devices[i].ip)
            => \A daddr \in Dests :
                   TunnelMark(nft, devices[i].ip, daddr)
                   => /\ SetName(devices[i].id) \in DOMAIN nft.sets
                      /\ daddr \in nft.sets[SetName(devices[i].id)]

\* C3 (as claimed): after compilation the chain holds exactly one set-scoped
\* mark rule and exactly one return rule for the IP of every enabled
\* custom-mode device.
C3_OneMarkOneReturnPerCustomIp ==
    compiled =>
        \A i \in EnabledIn("custom") :
            /\ Len(RulesOf(nft, LAMBDA r : IsMarkSetRule(r) /\ r.saddr = devices[i].ip)) = 1
            /\ Len(RulesOf(nft, LAMBDA r : IsReturnRule(r) /\ r.saddr = devices[i].ip)) = 1

\* C3 (amended): after compilation, an enabled custom-mode device with at least
\* one service, custom domain or custom IP has exactly two generated rules, in
\* this order: a mark rule from its IP to its own set device_<id>, and a return
\* rule for its IP; an enabled custom-mode device with none of them has no rule.
C3_CustomRulesPerDevice ==
    compiled =>
        \A i \in EnabledIn("custom") :
            LET d == devices[i]
                rs == RulesFor(nft, d.id)
            IN IF HasContent(d)
               THEN /\ Len(rs) = 2
                    /\ IsMarkSetRule(rs[1]) /\ rs[1].saddr = d.ip /\ rs[1].daddr = SetName(d.id)
                    /\ IsReturnRule(rs[2]) /\ rs[2].saddr = d.ip
                    /\ Len(RulesOf(nft, LAMBDA r : r.daddr = SetName(d.id))) = 1
               ELSE rs = <<>>

C3_Witness ==
    /\ compiled
    /\ \E i, j \in EnabledIn("custom") :
          /\ HasContent(devices[i]) /\ Len(RulesFor(nft, devices[i].id)) = 2
          /\ ~HasContent(devices[j])

\* C4 (as claimed): after compilation the chain holds an unconditional return
\* rule for the IP of every enabled direct_all device and no rule that marks
\* packets from that IP depending on their destination.
C4_DirectAllNoDestinationMark ==
    compiled =>
        \A i \in EnabledIn("direct_all") :
            /\ \E k \in 1..Len(nft.chain) :
                  IsReturnRule(nft.chain[k]) /\ nft.chain[k].saddr = devices[i].ip
            /\ \A k \in 1..Len(nft.chain) :
                  ~(IsMarkSetRule(nft.chain[k]) /\ nft.chain[k].saddr = devices[i].ip)

\* C4 (amended): after compilation, every enabled direct_all device has exactly
\* one generated rule, an unconditional return rule for its IP; a set-scoped mark
\* rule on that IP exists only when an enabled custom-mode device shares the IP,
\* belongs to that device, and comes after the direct_all device's return rule.
C4_DirectAllReturnBeforeSharedMark ==
    compiled =>
        \A i \in EnabledIn("direct_all") :
            LET d == devices[i]
                rs == RulesFor(nft, d.id)
            IN /\ Len(rs) = 1 /\ IsReturnRule(rs[1]) /\ rs[1].saddr = d.ip
               /\ \A k \in 1..Len(nft.chain) :
                     (IsMarkSetRule(nft.chain[k]) /\ nft.chain[k].saddr = d.ip)
                     => /\ \E j \in EnabledIn("custom") :
                              /\ devices[j].ip = d.ip
                              /\ devices[j].id = nft.chain[k].comment[2]
                        /\ \E m \in 1..(k - 1) : nft.chain[m] = rs[1]

\* C4 witness: an enabled direct_all device and an enabled custom-mode device on
\* one IP, both with their rules in the compiled chain.
C4_Witness ==
    /\ compiled
    /\ \E i \in EnabledIn("direct_all"), j \in EnabledIn("custom") :
          /\ devices[i].ip = devices[j].ip
          /\ Len(RulesFor(nft, devices[i].id)) = 1
          /\ Len(RulesFor(nft, devices[j].id)) = 2

\* C5: after compilation the chain holds no device-marked rule and no device_*
\* set of a device that is not enabled or whose mode is default.
C5_NoRulesForSkippedDevices ==
    compiled =>
        \A i \in 1..Len(devices) :
            (~devices[i].enabled \/ devices[i].mode = "default")
            => /\ RulesFor(nft, devices[i].id) = <<>>
               /\ SetName(devices[i].id) \notin DOMAIN nft.sets

\* C5 witness: a compiled state with a disabled custom-mode device that has
\* services (its rules and set were generated when it was created enabled), and
\* a default-mode device next to a device that does have rules.
C5_Witness ==
    /\ compiled
    /\ \E i, j \in 1..Len(devices) :
          /\ ~devices[i].enabled /\ devices[i].mode = "custom" /\ HasContent(devices[i])
          /\ RulesFor(nft, devices[i].id) = <<>>
          /\ devices[j].enabled /\ RulesFor(nft, devices[j].id) # <<>>

(***************************************************************************)
(* The update pipeline as separate processes.  A device handler of the API *)
(* saves devices.json and runs pinpoint-update.py with a blocking          *)
(* run_command, so the API process has at most one run of its own; crond   *)
(* starts the script from the crontab line written by                      *)
(* set_auto_update_time.  The script takes no lock.                        *)
(***************************************************************************)
Times == {"05:00"}
PipelineModes == {"direct_all", "custom"}
PipelineContent == [services |-> <<"s1">>, custom_domains |-> <<>>, custom_ips |-> <<"c1">>]
Stages == {"idle", "start", "services", "sets", "clean_list", "clean_rules",
           "clean_sets", "compile", "restart"}

Goto(p, stage) == running' = [running EXCEPT ![p] = stage]
Reserved == UNION {Range(handles[p]) : p \in Invokers}

set_auto_update_time(time) ==
    /\ running["api"] = "idle"
    /\ crontab' = time
    /\ UNCHANGED <<devVars, running, handles, tunVars>>

\* a device handler up to its call of apply_device_routing
ApiRequest ==
    /\ running["api"] = "idle"
    /\ \/ /\ Len(devices) < MaxPipelineDevices
          /\ \E name \in Names, mode \in PipelineModes :
                StoreCreate(name, "192.168.1.10", mode, PipelineContent)
       \/ \E device_id \in DeviceIds, e \in BOOLEAN : StoreUpdate(device_id, [enabled |-> e])
       \/ \E device_id \in DeviceIds : StoreDelete(device_id)
    /\ Goto("api", "start")
    /\ compiled' = FALSE
    /\ UNCHANGED <<servicesFile, lists, nft, handles, crontab, tunVars>>

\* crond runs the crontab line
CronFires ==
    /\ crontab # None
    /\ running["cron"] = "idle"
    /\ Goto("cron", "start")
    /\ UNCHANGED <<devVars, handles, crontab, tunVars>>

\* update_all: if not SERVICES_FILE.exists(): return 1
StageStart(p) ==
    /\ running[p] = "start"
    /\ Goto(p, IF servicesFile THEN "services" ELSE "idle")
    /\ UNCHANGED <<devVars, handles, crontab, tunVars>>

\* update_all: process_service for every service, generate_dnsmasq_config
StageServices(p) ==
    /\ running[p] = "services"
    /\ \E dl \in Downloads : lists' = process_services(lists, Services, dl)
    /\ Goto(p, "sets")
    /\ UNCHANGED <<devices, servicesFile, nft, compiled, handles, crontab, tunVars>>

StageSets(p) ==
    /\ running[p] = "sets"
    /\ nft' = load_nftables_sets(nft, lists)
    /\ Goto(p, "clean_list")
    /\ UNCHANGED <<devices, servicesFile, lists, compiled, handles, crontab, tunVars>>

\* clean_device_rules: nft -a list chain, parse the handles
StageCleanList(p) ==
    /\ running[p] = "clean_list"
    /\ handles' = [handles EXCEPT ![p] = HandlesToDelete(nft)]
    /\ Goto(p, "clean_rules")
    /\ UNCHANGED <<devVars, crontab, tunVars>>

\* clean_device_rules: nft delete rule ... handle h, in reverse order
StageCleanRules(p) ==
    /\ running[p] = "clean_rules"
    /\ nft' = DeleteRules(nft, Reversed(handles[p]))
    /\ handles' = [handles EXCEPT ![p] = <<>>]
    /\ Goto(p, "clean_sets")
    /\ UNCHANGED <<devices, servicesFile, lists, compiled, crontab, tunVars>>

\* clean_device_rules: nft list sets, nft delete set device_*
StageCleanSets(p) ==
    /\ running[p] = "clean_sets"
    /\ nft' = CleanSets(nft)
    /\ Goto(p, "compile")
    /\ UNCHANGED <<devices, servicesFile, lists, compiled, handles, crontab, tunVars>>

\* generate_device_rules after the cleanup: read devices.json, add sets and rules
StageCompile(p) ==
    /\ running[p] = "compile"
    /\ nft' = compile_device_rules(nft, devices, lists, Reserved)
    /\ compiled' = TRUE
    /\ Goto(p, "restart")
    /\ UNCHANGED <<devices, servicesFile, lists, handles, crontab, tunVars>>

\* restart_dnsmasq, save_update_status, return 0
StageRestart(p) ==
    /\ running[p] = "restart"
    /\ Goto(p, "idle")
    /\ UNCHANGED <<devVars, handles, crontab, tunVars>>

NextPipeline ==
    \/ \E time \in Times : set_auto_update_time(time)
    \/ ApiRequest
    \/ CronFires
    \/ \E p \in Invokers :
          \/ StageStart(p)
          \/ StageServices(p)
          \/ StageSets(p)
          \/ StageCleanList(p)
          \/ StageCleanRules(p)
          \/ StageCleanSets(p)
          \/ StageCompile(p)
          \/ StageRestart(p)

SpecPipeline == Init /\ [][NextPipeline]_vars

\* the invocations that have passed the services.json check and not yet returned
InFlight == {p \in Invokers : running[p] \notin {"idle", "start"}}

\* C6 (as claimed): at most one invocation of update_all is in flight at any
\* time, whether started by an API request or by the cron job.
C6_AtMostOneInFlight == Cardinality(InFlight) <= 1

(***************************************************************************)
(* POST /api/singbox/generate on every stored input                        *)
(***************************************************************************)
TunnelIds == <<"t1", "t2", "t3", "t4", "t5", "t6", "t7">>
TunnelTypes == <<"vless", "trojan", "vless", "trojan", "vless", "trojan", "vless">>
Tolerances == {70}

TunnelInputs ==
    UNION {[1..n -> BOOLEAN] : n \in 0..MaxTunnels}

StoredTunnels(flags) ==
    [i \in 1..Len(flags) |->
        [id |-> TunnelIds[i], type |-> TunnelTypes[i], enabled |-> flags[i],
         source |-> "manual", subscription_id |-> None]]

GroupTag(name) == <<"group-">> \o name

MemberLists == {<<>>, <<"t1", "t3">>, <<"t3", "t1">>, <<"t2", "tx">>, <<"t1", "t1">>}

GroupInputs ==
    {<<>>} \cup
    {<<[id |-> "g1", tag |-> GroupTag(<<"a">>), type |-> type, tunnels |-> members,
        interval |-> "5m", tolerance |-> tolerance]>> :
        type \in {"urltest", "fallback", "selector"}, members \in MemberLists,
        tolerance \in Tolerances} \cup
    {<<[id |-> "g1", tag |-> GroupTag(<<"a">>), type |-> "urltest", tunnels |-> <<"t2">>,
        interval |-> "5m", tolerance |-> 50],
       [id |-> "g2", tag |-> GroupTag(<<"b">>), type |-> "selector", tunnels |-> <<"t3", "t2">>,
        interval |-> "5m", tolerance |-> 50]>>}

RuleValues ==
    { [enabled |-> TRUE, outbound |-> DirectOut,
       domains |-> <<<<"a">>, <<"*", ".", "T">>, <<" ", ".", "b">>>>, domain_keywords |-> <<>>],
      [enabled |-> TRUE, outbound |-> <<"vless", "-", "t1">>,
       domains |-> <<>>, domain_keywords |-> <<"k">>],
      [enabled |-> TRUE, outbound |-> <<"vless", "-", "tx">>,
       domains |-> <<<<"a">>>>, domain_keywords |-> <<>>],
      [enabled |-> TRUE, outbound |-> GroupTag(<<"a">>),
       domains |-> <<>>, domain_keywords |-> <<>>],
      [enabled |-> FALSE, outbound |-> DirectOut,
       domains |-> <<<<"a">>>>, domain_keywords |-> <<>>] }

RuleInputs == UNION {[1..n -> RuleValues] : n \in 0..MaxRules}

DefaultInputs == {None, <<"vless", "-", "t1">>, <<"vless", "-", "tx">>}
ActiveInputs == {None, DirectOut, <<"trojan", "-", "t2">>}

InitGenerate ==
    /\ InitRun
    /\ devices = <<>>
    /\ servicesFile = TRUE
    /\ lists = [s \in ServiceIds |-> {}]
    /\ nft = NftInit
    /\ compiled = FALSE
    /\ \E flags \in TunnelInputs : tunnels = StoredTunnels(flags)
    /\ groups \in GroupInputs
    /\ subscriptions = <<>>
    /\ \E rules \in RuleInputs, default_outbound \in DefaultInputs :
          routing_rules = [default_outbound |-> default_outbound, rules |-> rules]
    /\ active_outbound \in ActiveInputs
    /\ config = None
    /\ group_outbounds = <<>>
    /\ last = [op |-> None, arg |-> None, before |-> <<>>, fetches |-> <<>>]
    /\ singbox = NoFiles
    /\ parser = NoCall

api_generate_singbox_config ==
    /\ config' = generate_singbox_config(tunnels, groups, active_outbound, routing_rules)
    /\ group_outbounds' = GroupOutbounds(groups, tunnels)
    \* arg counts the calls made (1, then 2 for every later one); before keeps
    \* what the call before this one returned
    /\ last' = [op |-> "generate",
                arg |-> IF last.op = "generate" THEN "2" ELSE "1",
                before |-> IF last.op = "generate" THEN <<config>> ELSE <<>>,
                fetches |-> <<>>]
    /\ UNCHANGED <<tunnels, groups, subscriptions, routing_rules, active_outbound,
                   singbox, parser>>
    /\ UNCHANGED <<devVars, runVars>>

NextGenerate == api_generate_singbox_config

SpecGenerate == InitGenerate /\ [][NextGenerate]_vars

\* the tags a group's member ids stand for: ids of existing enabled tunnels, in
\* the group's order
IsEnabledTunnel(t_id) == \E i \in 1..Len(tunnels) : tunnels[i].id = t_id /\ tunnels[i].enabled
TagOfId(t_id) == TunnelTag(tunnels[CHOOSE i \in 1..Len(tunnels) : tunnels[i].id = t_id])
ExpectedMembers(group) ==
    LET live == SelectSeq(group.tunnels, IsEnabledTunnel)
    IN [k \in 1..Len(live) |-> TagOfId(live[k])]
Generated == last.op = "generate"

\* C7 (as claimed): generation completes without failing on every input, no
\* routing rule with an outbound tag outside the valid-tag set appears in
\* route.rules, and the outbounds of the config are produced.
C7_GenerationNeverFails ==
    Generated =>
        /\ config.error = None
        /\ \A i \in 1..Len(config.route_rules) :
              config.route_rules[i].outbound \in valid_tags(tunnels, groups)
        /\ config.outbounds = Outbounds(tunnels, groups)

\* the target the claimed resolution order gives: the first valid tag among the
\* explicit default_outbound, the active_outbound, the first enabled tunnel
ClaimedDefault ==
    LET valid == valid_tags(tunnels, groups)
    IN IF routing_rules.default_outbound # None /\ routing_rules.default_outbound \in valid
       THEN <<routing_rules.default_outbound>>
       ELSE IF active_outbound # None /\ active_outbound \in valid
       THEN <<active_outbound>>
       ELSE IF enabled_tunnels(tunnels) # <<>>
       THEN <<TunnelTag(enabled_tunnels(tunnels)[1])>>
       ELSE <<>>

TunInTargets(cfg) ==
    LET tun == SelectSeq(cfg.route_rules, LAMBDA r : r.inbound = <<"tun-in">>)
    IN [i \in 1..Len(tun) |-> tun[i].outbound]

\* C8 (as claimed): in a config that was generated, the tun-inbound rule targets
\* the first valid tag among default_outbound, active_outbound and the first
\* enabled tunnel, and there is no such rule when none of them resolves.
C8_DefaultRuleResolution ==
    (Generated /\ config.error = None) => TunInTargets(config) = ClaimedDefault

\* C9: the member list of every group outbound is the tags of the group's
\* member ids that name an existing enabled tunnel, in the group's order, and a
\* urltest group carries its configured tolerance.
C9_GroupMembersEnabledInOrder ==
    Generated =>
        /\ Len(group_outbounds) = Len(groups)
        /\ \A i \in 1..Len(groups) :
              /\ group_outbounds[i].outbounds = ExpectedMembers(groups[i])
              /\ groups[i].type = "urltest" =>
                    group_outbounds[i].tolerance = groups[i].tolerance

C9_Witness ==
    /\ Generated
    /\ Len(groups) = 1 /\ Len(tunnels) = 3
    /\ groups[1].type = "urltest" /\ groups[1].tunnels = <<"t3", "t1">>
    /\ tunnels[1].enabled /\ ~tunnels[2].enabled /\ tunnels[3].enabled
    /\ group_outbounds[1].outbounds = <<<<"vless", "-", "t3">>, <<"vless", "-", "t1">>>>
    /\ group_outbounds[1].tolerance = 70

(***************************************************************************)
(* backend/main.py: the tunnel and subscription handlers                   *)
(***************************************************************************)
SubscriptionIds == <<"u1", "u2">>
ParsedCounts == 0..2
CreateTypes == {"vless"}
ImportTypes == {"trojan"}

\* generate_id(): a random id, which no stored object carries.  Ids are only
\* compared for equality, so the first unused id of the pool stands for it.
generate_id(pool, used) ==
    pool[CHOOSE i \in 1..Len(pool) :
            pool[i] \notin used /\ \A j \in 1..(i - 1) : pool[j] \in used]

RECURSIVE generate_ids(_, _, _)
generate_ids(pool, used, count) ==
    IF count = 0 THEN <<>>
    ELSE <<generate_id(pool, used)>>
         \o generate_ids(pool, used \cup {generate_id(pool, used)}, count - 1)

TunnelIdsUsed == {tunnels[i].id : i \in 1..Len(tunnels)}
SubscriptionIdsUsed == {subscriptions[i].id : i \in 1..Len(subscriptions)}

Call(op, arg) == last' = [op |-> op, arg |-> arg, before |-> tunnels, fetches |-> <<>>]
\* a call that downloaded subscriptions: fetches lists, per download that
\* succeeded, the subscription and the tunnels parsed from it
CallFetching(op, arg, fetches) ==
    last' = [op |-> op, arg |-> arg, before |-> tunnels, fetches |-> fetches]

create_tunnel(type) ==
    /\ Len(tunnels) < MaxTunnels
    /\ tunnels' = Append(tunnels, [id |-> generate_id(TunnelIds, TunnelIdsUsed), type |-> type, enabled |-> TRUE,
                                   source |-> "manual", subscription_id |-> None])
    /\ Call("create_tunnel", type)
    /\ UNCHANGED <<groups, subscriptions, routing_rules, active_outbound, config, group_outbounds, singbox, parser>>
    /\ UNCHANGED <<devVars, runVars>>

import_tunnel(type) ==
    /\ Len(tunnels) < MaxTunnels
    /\ tunnels' = Append(tunnels, [id |-> generate_id(TunnelIds, TunnelIdsUsed), type |-> type, enabled |-> TRUE,
                                   source |-> "import", subscription_id |-> None])
    /\ Call("import_tunnel", type)
    /\ UNCHANGED <<groups, subscriptions, routing_rules, active_outbound, config, group_outbounds, singbox, parser>>
    /\ UNCHANGED <<devVars, runVars>>

\* the parsed tunnels after "Mark tunnels with subscription ID"
MarkedTunnels(ids, sub_id) ==
    [i \in 1..Len(ids) |-> [id |-> ids[i], type |-> "vless", enabled |-> TRUE,
                            source |-> "subscription", subscription_id |-> sub_id]]

\* parse_subscription_content: count tunnels, each with a generated id
new_tunnels(count, used) == generate_ids(TunnelIds, used, count)

create_subscription(count) ==
    /\ count # 0
    /\ Len(tunnels) + count <= MaxTunnels
    /\ Len(subscriptions) < Len(SubscriptionIds)
    /\ LET sub_id == generate_id(SubscriptionIds, SubscriptionIdsUsed)
       IN /\ subscriptions' = Append(subscriptions, [id |-> sub_id, tunnels_count |-> count])
          /\ tunnels' = tunnels \o MarkedTunnels(new_tunnels(count, TunnelIdsUsed), sub_id)
          /\ Call("create_subscription", sub_id)
    /\ UNCHANGED <<groups, routing_rules, active_outbound, config, group_outbounds, singbox, parser>>
    /\ UNCHANGED <<devVars, runVars>>

\* Mutant: the tunnels are filtered by their source instead of their owner.
WithoutSubscription_BySource(ts, sub_id) ==
    SelectSeq(ts, LAMBDA t : t.source # "subscription")

\* [t for t in tunnels if t.get("subscription_id") != sub_id]
WithoutSubscription(ts, sub_id) ==
    SelectSeq(ts, LAMBDA t : t.subscription_id # sub_id)

update_subscription_tunnels(sub_id, count) ==
    /\ \E i \in 1..Len(subscriptions) : subscriptions[i].id = sub_id
    /\ Len(WithoutSubscription(tunnels, sub_id)) + count <= MaxTunnels
    /\ tunnels' = WithoutSubscription(tunnels, sub_id)
                  \o MarkedTunnels(new_tunnels(count, TunnelIdsUsed), sub_id)
    /\ subscriptions' = [i \in 1..Len(subscriptions) |->
                           IF subscriptions[i].id = sub_id
                           THEN [subscriptions[i] EXCEPT !.tunnels_count = count]
                           ELSE subscriptions[i]]
    /\ CallFetching("update_subscription_tunnels", sub_id,
                    <<[sub_id |-> sub_id,
                       parsed |-> MarkedTunnels(new_tunnels(count, TunnelIdsUsed), sub_id)]>>)
    /\ UNCHANGED <<groups, routing_rules, active_outbound, config, group_outbounds, singbox, parser>>
    /\ UNCHANGED <<devVars, runVars>>

\* What one pass of the background task meets at a subscription: it is skipped
\* (auto-update off, not yet due, or the download raised) or count tunnels are
\* parsed from the downloaded content.
AutoOutcomes == {[fetched |-> FALSE, count |-> 0]}
                \cup {[fetched |-> TRUE, count |-> c] : c \in ParsedCounts}

RECURSIVE auto_update_tunnels(_, _, _)
auto_update_tunnels(ts, subs, outcomes) ==
    IF subs = <<>> THEN ts
    ELSE LET sub == Head(subs)
             outcome == Head(outcomes)
             used == {ts[i].id : i \in 1..Len(ts)}
             replaced == WithoutSubscription(ts, sub.id)
                         \o MarkedTunnels(new_tunnels(outcome.count, used), sub.id)
         IN auto_update_tunnels(
                IF outcome.fetched /\ outcome.count # 0 THEN replaced ELSE ts,
                Tail(subs), Tail(outcomes))

RECURSIVE AutoFetches(_, _, _)
AutoFetches(ts, subs, outcomes) ==
    IF subs = <<>> THEN <<>>
    ELSE LET used == {ts[i].id : i \in 1..Len(ts)}
             parsed == MarkedTunnels(new_tunnels(Head(outcomes).count, used), Head(subs).id)
             fetch == IF Head(outcomes).fetched
                      THEN <<[sub_id |-> Head(subs).id, parsed |-> parsed]>> ELSE <<>>
         IN fetch \o AutoFetches(auto_update_tunnels(ts, <<Head(subs)>>, <<Head(outcomes)>>),
                                 Tail(subs), Tail(outcomes))

auto_update_subscriptions(outcomes) ==
    /\ Len(outcomes) = Len(subscriptions)
    /\ \A k \in 1..Len(subscriptions) :
          Len(auto_update_tunnels(tunnels, SubSeq(subscriptions, 1, k),
                                  SubSeq(outcomes, 1, k))) <= MaxTunnels
    /\ tunnels' = auto_update_tunnels(tunnels, subscriptions, outcomes)
    /\ subscriptions' = [i \in 1..Len(subscriptions) |->
                           IF outcomes[i].fetched /\ outcomes[i].count # 0
                           THEN [subscriptions[i] EXCEPT !.tunnels_count = outcomes[i].count]
                           ELSE subscriptions[i]]
    /\ CallFetching("auto_update_subscriptions", None,
                    AutoFetches(tunnels, subscriptions, outcomes))
    /\ UNCHANGED <<groups, routing_rules, active_outbound, config, group_outbounds, singbox, parser>>
    /\ UNCHANGED <<devVars, runVars>>

delete_subscription(sub_id) ==
    /\ subscriptions' = SelectSeq(subscriptions, LAMBDA sub : sub.id # sub_id)
    /\ tunnels' = WithoutSubscription(tunnels, sub_id)
    /\ Call("delete_subscription", sub_id)
    /\ UNCHANGED <<groups, routing_rules, active_outbound, config, group_outbounds, singbox, parser>>
    /\ UNCHANGED <<devVars, runVars>>

\* list.remove(x): the first occurrence goes
RemoveFirst(seq, x) ==
    IF x \notin Range(seq) THEN seq
    ELSE LET k == CHOOSE i \in 1..Len(seq) : seq[i] = x /\ \A j \in 1..(i - 1) : seq[j] # x
         IN SubSeq(seq, 1, k - 1) \o SubSeq(seq, k + 1, Len(seq))

delete_tunnel(tunnel_id) ==
    /\ tunnels' = SelectSeq(tunnels, LAMBDA t : t.id # tunnel_id)
    /\ groups' = [i \in 1..Len(groups) |->
                    [groups[i] EXCEPT !.tunnels = RemoveFirst(groups[i].tunnels, tunnel_id)]]
    \* the record of the call also keeps the groups as they were before it
    /\ CallFetching("delete_tunnel", tunnel_id, groups)
    /\ UNCHANGED <<subscriptions, routing_rules, active_outbound, config, group_outbounds, singbox, parser>>
    /\ UNCHANGED <<devVars, runVars>>

InitTunnels ==
    /\ InitRun
    /\ devices = <<>>
    /\ servicesFile = TRUE
    /\ lists = [s \in ServiceIds |-> {}]
    /\ nft = NftInit
    /\ compiled = FALSE
    /\ InitTun

NextTunnels ==
    \/ \E type \in CreateTypes : create_tunnel(type)
    \/ \E type \in ImportTypes : import_tunnel(type)
    \/ \E count \in ParsedCounts : create_subscription(count)
    \/ \E sub_id \in Range(SubscriptionIds), count \in ParsedCounts :
          update_subscription_tunnels(sub_id, count)
    \/ \E outcomes \in UNION {[1..n -> AutoOutcomes] : n \in 1..Len(SubscriptionIds)} :
          auto_update_subscriptions(outcomes)
    \/ \E sub_id \in Range(SubscriptionIds) : delete_subscription(sub_id)
    \/ \E tunnel_id \in TunnelIdsUsed \cup {"tx"} : delete_tunnel(tunnel_id)

SpecTunnels == InitTunnels /\ [][NextTunnels]_vars

Deleted(sub_id) == last.op = "delete_subscription" /\ last.arg = sub_id

\* C10: after deleting subscription S the tunnel store holds exactly the
\* tunnels it held before whose subscription_id is not S, unchanged and in
\* their original order, and S is not in the subscription store.
C10_DeleteSubscriptionRemovesOwnTunnels ==
    \A sub_id \in Range(SubscriptionIds) :
        Deleted(sub_id) =>
            /\ \A i \in 1..Len(tunnels) : tunnels[i].subscription_id # sub_id
            /\ tunnels = SelectSeq(last.before, LAMBDA t : t.subscription_id # sub_id)
            /\ \A i \in 1..Len(subscriptions) : subscriptions[i].id # sub_id

C10_Witness ==
    /\ Deleted("u1")
    /\ Len(tunnels) < Len(last.before)
    /\ \E i \in 1..Len(tunnels) : tunnels[i].subscription_id = "u2"
    /\ \E i \in 1..Len(tunnels) : tunnels[i].subscription_id = None

Refetched == last.op \in {"update_subscription_tunnels", "auto_update_subscriptions"}
OwnedBy(ts, sub_id) == SelectSeq(ts, LAMBDA t : t.subscription_id = sub_id)
FetchedIds == {last.fetches[k].sub_id : k \in 1..Len(last.fetches)}

\* C11 (as claimed): after a refetch that downloaded subscription S, manual or
\* by the background task, the stored tunnels of S are exactly the freshly
\* parsed ones, also when none was parsed, and every tunnel of another owner
\* or of no owner is as it was.
C11_RefetchReplacesOwnTunnels ==
    Refetched =>
        /\ \A k \in 1..Len(last.fetches) :
              OwnedBy(tunnels, last.fetches[k].sub_id) = last.fetches[k].parsed
        /\ SelectSeq(tunnels, LAMBDA t : t.subscription_id \notin FetchedIds)
           = SelectSeq(last.before, LAMBDA t : t.subscription_id \notin FetchedIds)

(***************************************************************************)
(* backend/tunnels.py: apply_singbox_config                                *)
(***************************************************************************)
ApplyDocs == {"cfg1", "cfg2", "cfg3", "cfg4"}
\* how far the call gets: shutil.copy raises, open() raises, json.dump raises after the file was
\* truncated, the restart raises (TimeoutExpired, OSError), the restart exits
\* with a non-zero status, or everything succeeds
ApplyOutcomes ==
    {"copy_raises", "open_raises", "dump_raises", "restart_raises", "restart_nonzero", "ok"}
Partial == "partial"
\* what /etc/sing-box may hold when the call is made
StoredFiles == {<<>>} \cup {<<doc>> : doc \in ApplyDocs}

\* except Exception: copy the backup over the config if there is a backup
Restore(files) ==
    [files EXCEPT !.config = IF files.backup # <<>> THEN files.backup ELSE @,
                  !.returned = "False"]

\* Mutant: the backup is taken after the new config is written.
apply_singbox_config_BackupAfterWrite(files, doc, outcome) ==
    LET written == [files EXCEPT !.config = <<doc>>, !.backup = <<doc>>]
    IN CASE outcome \in {"copy_raises", "open_raises"} -> Restore(files)
         [] outcome = "dump_raises" -> Restore([files EXCEPT !.config = <<Partial>>])
         [] outcome = "restart_raises" -> Restore(written)
         [] outcome = "restart_nonzero" -> [written EXCEPT !.returned = "False"]
         [] OTHER -> [written EXCEPT !.returned = "True"]

apply_singbox_config(files, doc, outcome) ==
    LET backed == [files EXCEPT !.backup = IF files.config # <<>> THEN files.config ELSE @]
        written == [backed EXCEPT !.config = <<doc>>]
    IN CASE outcome = "copy_raises" -> Restore(files)
         [] outcome = "open_raises" -> Restore(backed)
         [] outcome = "dump_raises" -> Restore([backed EXCEPT !.config = <<Partial>>])
         [] outcome = "restart_raises" -> Restore(written)
         [] outcome = "restart_nonzero" -> [written EXCEPT !.returned = "False"]
         [] OTHER -> [written EXCEPT !.returned = "True"]

\* the copy is only attempted, and can only fail, when a config file exists
Apply(doc, outcome) ==
    /\ outcome = "copy_raises" => singbox.config # <<>>
    /\ singbox' = apply_singbox_config(singbox, doc, outcome)
    /\ last' = [op |-> "apply", arg |-> outcome, before |-> singbox.config, fetches |-> <<doc>>]
    /\ UNCHANGED <<tunnels, groups, subscriptions, routing_rules, active_outbound, config,
                   group_outbounds, parser>>
    /\ UNCHANGED <<devVars, runVars>>

InitApply ==
    /\ InitRun
    /\ devices = <<>>
    /\ servicesFile = TRUE
    /\ lists = [s \in ServiceIds |-> {}]
    /\ nft = NftInit
    /\ compiled = FALSE
    /\ tunnels = <<>>
    /\ groups = <<>>
    /\ subscriptions = <<>>
    /\ routing_rules = [default_outbound |-> None, rules |-> <<>>]
    /\ active_outbound = None
    /\ config = None
    /\ group_outbounds = <<>>
    /\ last = [op |-> None, arg |-> None, before |-> <<>>, fetches |-> <<>>]
    /\ \E c \in StoredFiles, b \in StoredFiles :
          singbox = [config |-> c, backup |-> b, returned |-> None]
    /\ parser = NoCall

NextApply == \E doc \in ApplyDocs, outcome \in ApplyOutcomes : Apply(doc, outcome)

SpecApply == InitApply /\ [][NextApply]_vars

\* C12 (as claimed): whenever apply fails (the write raises, the restart raises
\* or times out, or the restart exits non-zero) the caller gets False and, if a
\* config file existed before the call, the file holds that prior config again.
C12_FailedApplyRestoresPrior ==
    (last.op = "apply" /\ last.arg # "ok") =>
        /\ singbox.returned = "False"
        /\ last.before # <<>> => singbox.config = last.before

Numerals == {"443", "80"}
IntOf(numeral) == IF numeral = "443" THEN 443 ELSE 80
\* urllib.parse.unquote / parse_qsl decoding of one run of characters
Unquote(token) == IF token = "k%2Bey" THEN "k+ey" ELSE token
UnquoteAll(tokens) == [i \in 1..Len(tokens) |-> Unquote(tokens[i])]

Find(tokens, c) ==
    IF c \in Range(tokens)
    THEN CHOOSE i \in 1..Len(tokens) : tokens[i] = c /\ \A j \in 1..(i - 1) : tokens[j] # c
    ELSE 0
FindLast(tokens, c) ==
    IF c \in Range(tokens)
    THEN CHOOSE i \in 1..Len(tokens) :
            tokens[i] = c /\ \A j \in (i + 1)..Len(tokens) : tokens[j] # c
    ELSE 0
Before(tokens, i) == SubSeq(tokens, 1, i - 1)
After(tokens, i) == SubSeq(tokens, i + 1, Len(tokens))

\* what a parser body does: return a tunnel, return None, or raise
Returned(tunnel) == [raised |-> FALSE, value |-> <<tunnel>>]
ReturnedNone == [raised |-> FALSE, value |-> <<>>]
Raises == [raised |-> TRUE, value |-> <<>>]
\* try: ... except Exception: return None
TryExcept(outcome) == IF outcome.raised THEN ReturnedNone ELSE outcome

\* content.rsplit('#', 1) when '#' in content
SplitName(content, default) ==
    IF "#" \in Range(content)
    THEN [content |-> Before(content, FindLast(content, "#")),
          name |-> UnquoteAll(After(content, FindLast(content, "#")))]
    ELSE [content |-> content, name |-> default]

\* the pieces of query between '&'
RECURSIVE SplitOn(_, _)
SplitOn(tokens, c) ==
    IF c \notin Range(tokens) THEN <<tokens>>
    ELSE <<Before(tokens, Find(tokens, c))>> \o SplitOn(After(tokens, Find(tokens, c)), c)

\* urllib.parse.parse_qsl(query): pieces without '=' and pieces with a blank
\* value are dropped, names and values are decoded
parse_qsl(query) ==
    LET pieces == SelectSeq(SplitOn(query, "&"),
                            LAMBDA piece : "=" \in Range(piece)
                                           /\ After(piece, Find(piece, "=")) # <<>>)
    IN [i \in 1..Len(pieces) |->
          [name |-> UnquoteAll(Before(pieces[i], Find(pieces[i], "="))),
           value |-> UnquoteAll(After(pieces[i], Find(pieces[i], "=")))]]

\* content.split('?', 1) and dict(parse_qsl(query))
SplitParams(content) ==
    IF "?" \in Range(content)
    THEN [content |-> Before(content, Find(content, "?")),
          params |-> parse_qsl(After(content, Find(content, "?")))]
    ELSE [content |-> content, params |-> <<>>]

\* params.get(name, default): in a dict the last pair of a name wins
ParamGet(params, name, default) ==
    LET hits == {i \in 1..Len(params) : params[i].name = <<name>>}
    IN IF hits = {} THEN default ELSE params[Max(hits)].value

\* re.match(r'\[([^\]]+)\]:(\d+)', server_port), for server_port starting with '['
BracketMatch(server_port) ==
    LET close == Find(server_port, "]")
    IN IF /\ close >= 3
          /\ Len(server_port) >= close + 2
          /\ server_port[close + 1] = ":"
          /\ server_port[close + 2] \in Numerals
       THEN <<[server |-> SubSeq(server_port, 2, close - 1),
               port |-> <<server_port[close + 2]>>]>>
       ELSE <<>>

\* server, port = server_port.rsplit(':', 1): raises when there is no ':'
RsplitColon(server_port) ==
    IF ":" \in Range(server_port)
    THEN <<[server |-> Before(server_port, FindLast(server_port, ":")),
            port |-> After(server_port, FindLast(server_port, ":"))]>>
    ELSE <<>>

\* int(port): raises unless port is a run of digits
IsInt(port) == Len(port) = 1 /\ port[1] \in Numerals

NoTls == [type |-> "none", server_name |-> <<>>, fingerprint |-> <<>>,
          public_key |-> <<>>, short_id |-> <<>>]

\* the "[...]:port" / "host:port" part of a link; <<>> when it does not match
HostPort(server_port) ==
    IF server_port # <<>> /\ server_port[1] = "[" THEN BracketMatch(server_port)
    ELSE RsplitColon(server_port)

\* Mutant: the reality block reads the public key and the short id crosswise.
VlessTls_Crossed(params, server) ==
    IF ParamGet(params, "security", <<"none">>) = <<"reality">>
    THEN [type |-> "reality",
          server_name |-> ParamGet(params, "sni", <<>>),
          fingerprint |-> ParamGet(params, "fp", <<"chrome">>),
          public_key |-> ParamGet(params, "sid", <<>>),
          short_id |-> ParamGet(params, "pbk", <<>>)]
    ELSE NoTls

VlessTls(params, server) ==
    LET security == ParamGet(params, "security", <<"none">>)
    IN IF security = <<"reality">>
       THEN [type |-> "reality",
             server_name |-> ParamGet(params, "sni", <<>>),
             fingerprint |-> ParamGet(params, "fp", <<"chrome">>),
             public_key |-> ParamGet(params, "pbk", <<>>),
             short_id |-> ParamGet(params, "sid", <<>>)]
       ELSE IF security \in {<<"tls">>, <<"xtls">>}
       THEN [type |-> security[1],
             server_name |-> ParamGet(params, "sni", server),
             fingerprint |-> ParamGet(params, "fp", <<>>),
             public_key |-> <<>>, short_id |-> <<>>]
       ELSE NoTls

\* the try block of parse_vless_link (the transport block, which only reads
\* params, is left out)
vless_body(body) ==
    LET named == SplitName(body, <<"VLESS Server">>)
        split == SplitParams(named.content)
        content == split.content
        user_uuid == Before(content, Find(content, "@"))
        server_port == After(content, Find(content, "@"))
        parts == HostPort(server_port)
    IN IF "@" \notin Range(content) THEN ReturnedNone
       ELSE IF parts = <<>> THEN ReturnedNone
       ELSE IF ~IsInt(parts[1].port) THEN Raises
       ELSE Returned([type |-> "vless", name |-> named.name,
                      server |-> parts[1].server, port |-> IntOf(parts[1].port[1]),
                      secret |-> user_uuid,
                      tls |-> VlessTls(split.params, parts[1].server)])

parse_vless_link(body) == TryExcept(vless_body(body))

\* the try block of parse_trojan_link / parse_hysteria2_link: rsplit('@', 1)
\* and rsplit(':', 1) are unpacked into two names without a test
password_body(type, body, default_name, at_optional) ==
    LET named == SplitName(body, default_name)
        split == SplitParams(named.content)
        content == split.content
        has_at == "@" \in Range(content)
        password == IF has_at THEN Before(content, FindLast(content, "@")) ELSE <<>>
        server_port == IF has_at THEN After(content, FindLast(content, "@")) ELSE content
        bracket == server_port # <<>> /\ server_port[1] = "["
        parts == HostPort(server_port)
    IN IF ~has_at /\ ~at_optional THEN Raises
       ELSE IF parts = <<>> THEN (IF bracket THEN ReturnedNone ELSE Raises)
       ELSE IF ~IsInt(parts[1].port) THEN Raises
       ELSE Returned([type |-> type, name |-> named.name,
                      server |-> parts[1].server, port |-> IntOf(parts[1].port[1]),
                      secret |-> password,
                      tls |-> [NoTls EXCEPT !.type = "tls",
                                            !.server_name =
                                                ParamGet(split.params, "sni", parts[1].server)]])

\* Mutant: the body of the trojan parser runs outside try/except.
parse_trojan_link_NoTry(body) == password_body("trojan", body, <<"Trojan Server">>, FALSE)

parse_trojan_link(body) ==
    TryExcept(password_body("trojan", body, <<"Trojan Server">>, FALSE))

parse_hysteria2_link(body) ==
    TryExcept(password_body("hysteria2", body, <<"Hysteria2 Server">>, TRUE))

\* base64 payloads: the one run of characters that decodes, and what it decodes to
Base64Token == "b64"
SsDecoded == <<"m", ":", "p", "@", "h", ":", "443">>
VmessDecoded == [type |-> "vmess", name |-> <<"VMess Server">>, server |-> <<"h">>,
                 port |-> 443, secret |-> <<"u">>, tls |-> NoTls]

\* the try block of parse_vmess_link: b64decode, json.loads, int(port)
vmess_body(body) == IF body = <<Base64Token>> THEN Returned(VmessDecoded) ELSE Raises
parse_vmess_link(body) == TryExcept(vmess_body(body))

\* the try block of parse_ss_link: SIP002 (userinfo@host:port, userinfo base64
\* or plain method:password) or the legacy all-base64 form
ss_body(body) ==
    LET named == SplitName(body, <<"Shadowsocks Server">>)
        content == named.content
        sip002 == "@" \in Range(content)
        user_info == Before(content, FindLast(content, "@"))
        method_password == IF user_info = <<Base64Token>> THEN <<"m", ":", "p">> ELSE user_info
        decoded == IF content = <<Base64Token>> THEN SsDecoded ELSE <<>>
        server_port == IF sip002 THEN After(content, FindLast(content, "@"))
                       ELSE After(decoded, FindLast(decoded, "@"))
        bracket == sip002 /\ server_port # <<>> /\ server_port[1] = "["
        parts == IF sip002 THEN HostPort(server_port) ELSE RsplitColon(server_port)
    IN IF ~sip002 /\ decoded = <<>> THEN Raises
       ELSE IF sip002 /\ ":" \notin Range(method_password) THEN Raises
       ELSE IF parts = <<>> THEN (IF bracket THEN ReturnedNone ELSE Raises)
       ELSE IF ~IsInt(parts[1].port) THEN Raises
       ELSE Returned([type |-> "shadowsocks", name |-> named.name,
                      server |-> parts[1].server, port |-> IntOf(parts[1].port[1]),
                      secret |-> IF sip002
                                 THEN After(method_password, Find(method_password, ":"))
                                 ELSE <<"p">>,
                      tls |-> NoTls])
parse_ss_link(body) == TryExcept(ss_body(body))

Schemes == {"vless://", "vmess://", "ss://", "trojan://", "hy2://", "hysteria2://", "http://"}

parse_share_link(link) ==
    CASE link.scheme = "vless://" -> parse_vless_link(link.body)
      [] link.scheme = "vmess://" -> parse_vmess_link(link.body)
      [] link.scheme = "ss://" -> parse_ss_link(link.body)
      [] link.scheme = "trojan://" -> parse_trojan_link(link.body)
      [] link.scheme \in {"hy2://", "hysteria2://"} -> parse_hysteria2_link(link.body)
      [] OTHER -> ReturnedNone

(***************************************************************************)
(* backend/tunnels.py: the subscription parsers.  A payload is described   *)
(* by its shape: JSON text (starts with '{'), Clash YAML (starts with      *)
(* 'proxies:'), base64 text of share-link lines, or plain share-link lines.*)
(***************************************************************************)
\* one line per share link; a line that does not parse is skipped
RECURSIVE parse_lines(_)
parse_lines(lines) ==
    IF lines = <<>> THEN <<>>
    ELSE parse_share_link(Head(lines)).value \o parse_lines(Tail(lines))

\* b64decode raises for a payload that is not base64 text
parse_base64_subscription(content) ==
    IF content.shape = "base64" THEN parse_lines(content.lines) ELSE <<>>

EntryTunnel(entry) ==
    [type |-> entry.type, name |-> <<"Proxy">>, server |-> <<"h">>,
     port |-> IntOf(entry.port), secret |-> <<"u">>, tls |-> NoTls]

ProxyTypes == {"vless", "vmess", "ss", "shadowsocks", "trojan", "hysteria2"}
OutboundTypes == {"vless", "vmess", "shadowsocks", "trojan", "hysteria2"}
SkippedOutboundTypes == {"direct", "block", "dns", "selector", "urltest"}

\* the loop over proxies inside the try block: int(port) is evaluated for every
\* proxy before its type is looked at, and an exception ends the loop
RECURSIVE clash_proxies(_, _)
clash_proxies(proxies, found) ==
    IF proxies = <<>> THEN found
    ELSE IF Head(proxies).port \notin Numerals THEN found
    ELSE IF Head(proxies).type \notin ProxyTypes
    THEN clash_proxies(Tail(proxies), found)
    ELSE clash_proxies(Tail(proxies), Append(found, EntryTunnel(Head(proxies))))

\* yaml.safe_load / data.get raise for text that is not a Clash document
parse_clash_subscription(content) ==
    IF content.shape = "clash" /\ content.valid THEN clash_proxies(content.entries, <<>>)
    ELSE <<>>

RECURSIVE singbox_outbounds(_, _)
singbox_outbounds(outbounds, found) ==
    IF outbounds = <<>> THEN found
    ELSE IF Head(outbounds).type \in SkippedOutboundTypes
    THEN singbox_outbounds(Tail(outbounds), found)
    ELSE IF Head(outbounds).port \notin Numerals THEN found
    ELSE IF Head(outbounds).type \notin OutboundTypes
    THEN singbox_outbounds(Tail(outbounds), found)
    ELSE singbox_outbounds(Tail(outbounds), Append(found, EntryTunnel(Head(outbounds))))

parse_singbox_subscription(content) ==
    IF content.shape = "json" /\ content.valid THEN singbox_outbounds(content.entries, <<>>)
    ELSE <<>>

\* the lines of the content itself (content.split('\n')): share links only for
\* a plain list; any other text is lines that are no share link
RawLines(content) == IF content.shape = "plain" THEN content.lines ELSE <<>>

\* Mutant: no second attempt on the raw lines.
parse_subscription_content_Base64Only(content, format_hint) ==
    IF format_hint = "singbox" \/ (format_hint = "auto" /\ content.shape = "json")
    THEN parse_singbox_subscription(content)
    ELSE IF format_hint = "clash" \/ (format_hint = "auto" /\ content.shape = "clash")
    THEN parse_clash_subscription(content)
    ELSE parse_base64_subscription(content)

parse_subscription_content(content, format_hint) ==
    IF format_hint = "singbox" \/ (format_hint = "auto" /\ content.shape = "json")
    THEN parse_singbox_subscription(content)
    ELSE IF format_hint = "clash" \/ (format_hint = "auto" /\ content.shape = "clash")
    THEN parse_clash_subscription(content)
    ELSE IF parse_base64_subscription(content) # <<>>
    THEN parse_base64_subscription(content)
    ELSE parse_lines(RawLines(content))

(***************************************************************************)
(* The parsers on every input of a bounded domain                          *)
(***************************************************************************)
LinkTokens == {"u", "443", "@", ":", "#", "?", "[", "]"}
ShortBodies == UNION {[1..n -> LinkTokens] : n \in 0..MaxLinkLen}
LongBodies ==
    { <<"u", "@", "[", "h", "]", ":", "443">>,
      <<"u", "@", "[", "h", ":", "443">>,
      <<"u", "@", "h", ":", "x">>,
      <<Base64Token>>,
      <<"m", ":", "p", "@", "h", ":", "443">>,
      <<Base64Token, "@", "h", ":", "80">> }

\* vless links uuid@host:port?security=reality with each of sni, fp, pbk, sid
\* left out, given blank, or given a value
ParamChoices == {"absent", "blank", "value"}
ParamValue(name) ==
    CASE name = "sni" -> <<"s">> [] name = "fp" -> <<"f">>
      [] name = "pbk" -> <<"k%2Bey">> [] OTHER -> <<"ab">>
Param(name, choice) ==
    CASE choice = "absent" -> <<>>
      [] choice = "blank" -> <<"&", name, "=">>
      [] OTHER -> <<"&", name, "=">> \o ParamValue(name)
RealityBody(port, sni, fp, pbk, sid, name) ==
    <<"u", "@", "h", ":", port, "?", "security", "=", "reality">>
    \o Param("sni", sni) \o Param("fp", fp) \o Param("pbk", pbk) \o Param("sid", sid)
    \o name
RealityBodies ==
    {RealityBody(port, sni, fp, pbk, sid, name) :
        port \in Numerals, sni \in ParamChoices, fp \in ParamChoices,
        pbk \in ParamChoices, sid \in ParamChoices, name \in {<<>>, <<"#", "n">>}}

Links ==
    {[kind |-> "link", scheme |-> scheme, body |-> body] :
        scheme \in Schemes, body \in ShortBodies \cup LongBodies}
    \cup {[kind |-> "link", scheme |-> "vless://", body |-> body] : body \in RealityBodies}

\* the lines of a link list: two links that parse, two that do not
LineValues ==
    { [kind |-> "link", scheme |-> "vless://", body |-> <<"u", "@", "h", ":", "443">>],
      [kind |-> "link", scheme |-> "trojan://", body |-> <<"u", "@", "h", ":", "80">>],
      [kind |-> "link", scheme |-> "trojan://", body |-> <<"u", ":", "443">>],
      [kind |-> "link", scheme |-> "http://", body |-> <<"h">>] }
EntryValues ==
    {[type |-> type, port |-> port] :
        type \in {"vless", "trojan", "socks5", "direct"}, port \in {"443", "x"}}
FormatHints == {"auto", "base64", "clash", "singbox"}

Contents4(shape, valid, entries, lines) ==
    {[kind |-> "content", shape |-> shape, valid |-> valid, entries |-> entries,
      lines |-> lines, hint |-> hint] : hint \in FormatHints}

SubscriptionContents ==
    UNION ({Contents4(shape, TRUE, entries, <<>>) :
               shape \in {"json", "clash"},
               entries \in UNION {[1..n -> EntryValues] : n \in 0..MaxEntries}}
           \cup {Contents4(shape, FALSE, <<>>, <<>>) : shape \in {"json", "clash"}}
           \cup {Contents4(shape, TRUE, <<>>, lines) :
                    shape \in {"base64", "plain"},
                    lines \in UNION {[1..n -> LineValues] : n \in 0..MaxEntries}})

ParseInputs == Links \cup SubscriptionContents

ParserReturns(fn, result) ==
    [fn |-> fn, input |-> parser.input, result |-> result, raised |-> FALSE]

ParseBase64 ==
    /\ parser.fn = None
    /\ parser.input.kind = "content"
    /\ parser' = ParserReturns("parse_base64_subscription",
                               parse_base64_subscription(parser.input))
    /\ UNCHANGED <<tunnels, groups, subscriptions, routing_rules, active_outbound, config,
                   group_outbounds, last, singbox>>
    /\ UNCHANGED <<devVars, runVars>>

ParseClash ==
    /\ parser.fn = None
    /\ parser.input.kind = "content"
    /\ parser' = ParserReturns("parse_clash_subscription",
                               parse_clash_subscription(parser.input))
    /\ UNCHANGED <<tunnels, groups, subscriptions, routing_rules, active_outbound, config,
                   group_outbounds, last, singbox>>
    /\ UNCHANGED <<devVars, runVars>>

ParseSingbox ==
    /\ parser.fn = None
    /\ parser.input.kind = "content"
    /\ parser' = ParserReturns("parse_singbox_subscription",
                               parse_singbox_subscription(parser.input))
    /\ UNCHANGED <<tunnels, groups, subscriptions, routing_rules, active_outbound, config,
                   group_outbounds, last, singbox>>
    /\ UNCHANGED <<devVars, runVars>>

ParseSubscriptionContent ==
    /\ parser.fn = None
    /\ parser.input.kind = "content"
    /\ parser' = ParserReturns("parse_subscription_content",
                               parse_subscription_content(parser.input, parser.input.hint))
    /\ UNCHANGED <<tunnels, groups, subscriptions, routing_rules, active_outbound, config,
                   group_outbounds, last, singbox>>
    /\ UNCHANGED <<devVars, runVars>>

ParseShareLink ==
    /\ parser.fn = None
    /\ parser.input.kind = "link"
    /\ parser' = [fn |-> "parse_share_link", input |-> parser.input,
                  result |-> parse_share_link(parser.input).value,
                  raised |-> parse_share_link(parser.input).raised]
    /\ UNCHANGED <<tunnels, groups, subscriptions, routing_rules, active_outbound, config,
                   group_outbounds, last, singbox>>
    /\ UNCHANGED <<devVars, runVars>>

InitParse ==
    /\ InitRun
    /\ devices = <<>>
    /\ servicesFile = TRUE
    /\ lists = [s \in ServiceIds |-> {}]
    /\ nft = NftInit
    /\ compiled = FALSE
    /\ tunnels = <<>>
    /\ groups = <<>>
    /\ subscriptions = <<>>
    /\ routing_rules = [default_outbound |-> None, rules |-> <<>>]
    /\ active_outbound = None
    /\ config = None
    /\ group_outbounds = <<>>
    /\ last = [op |-> None, arg |-> None, before |-> <<>>, fetches |-> <<>>]
    /\ singbox = NoFiles
    /\ \E input \in ParseInputs :
          parser = [fn |-> None, input |-> input, result |-> <<>>, raised |-> FALSE]

NextParse ==
    \/ ParseShareLink
    \/ ParseBase64
    \/ ParseClash
    \/ ParseSingbox
    \/ ParseSubscriptionContent

SpecParse == InitParse /\ [][NextParse]_vars

LinkParsed == parser.fn = "parse_share_link"
Body == parser.input.body
Scheme == parser.input.scheme

\* C14: parse_share_link never raises, and it returns the failure value for an
\* unsupported scheme, a vless or trojan link without '@', a host:port part
\* without ':' or with an unterminated '[', and a non-numeric port.
C14_ParseShareLinkNeverRaises ==
    LinkParsed =>
        /\ ~parser.raised
        /\ Len(parser.result) <= 1
        /\ Scheme = "http://" => parser.result = <<>>
        /\ (Scheme \in {"vless://", "trojan://"} /\ "@" \notin Range(Body))
              => parser.result = <<>>
        /\ (Scheme \in {"vless://", "trojan://"} /\ ":" \notin Range(Body))
              => parser.result = <<>>
        /\ (Scheme \in {"vless://", "trojan://"} /\ "[" \in Range(Body)
            /\ "]" \notin Range(Body) /\ Find(Body, "[") = FindLast(Body, "@") + 1
            /\ Find(Body, "@") = FindLast(Body, "@") /\ Find(Body, "@") # 0)
              => parser.result = <<>>
        /\ (Scheme \in {"vless://", "trojan://", "hy2://", "hysteria2://"}
            /\ Range(Body) \cap Numerals = {})
              => parser.result = <<>>

C14_Witness ==
    /\ LinkParsed
    /\ Scheme = "trojan://"
    /\ Body = <<"u", ":", "443">>
    /\ parser.result = <<>>
    /\ ~parser.raised

RealityParsed == LinkParsed /\ Scheme = "vless://" /\ Body \in RealityBodies
\* the link's parameter name as written: is it there, and its (decoded) value
HasParam(name) == name \in Range(Body)
LinkParam(name) ==
    LET i == Find(Body, name)
    IN IF i # 0 /\ Len(Body) >= i + 2 /\ Body[i + 2] \notin {"&", "#"}
       THEN <<Unquote(Body[i + 2])>> ELSE <<>>
Tunnel == parser.result[1]
RealityBasics ==
    /\ Len(parser.result) = 1
    /\ Tunnel.type = "vless"
    /\ Tunnel.secret = <<"u">>
    /\ Tunnel.server = <<"h">>
    /\ Tunnel.port = IntOf(Body[5])
    /\ Tunnel.tls.type = "reality"

\* C15 (as claimed): a well-formed vless reality link parses to a vless tunnel
\* with the uuid, server and integer port of the link and a reality tls block
\* whose server_name, fingerprint, public_key and short_id are the link's
\* sni, fp, pbk and sid parameters.
C15_RealityFieldsAsEncoded ==
    RealityParsed =>
        /\ RealityBasics
        /\ HasParam("sni") => Tunnel.tls.server_name = LinkParam("sni")
        /\ HasParam("fp") => Tunnel.tls.fingerprint = LinkParam("fp")
        /\ HasParam("pbk") => Tunnel.tls.public_key = LinkParam("pbk")
        /\ HasParam("sid") => Tunnel.tls.short_id = LinkParam("sid")

\* C15 (amended): as above for every parameter given with a non-empty value;
\* a parameter that is left out or blank gives the empty string for sni, pbk
\* and sid and "chrome" for fp.
C15_RealityFieldsOrDefaults ==
    RealityParsed =>
        /\ RealityBasics
        /\ Tunnel.tls.server_name = LinkParam("sni")
        /\ Tunnel.tls.public_key = LinkParam("pbk")
        /\ Tunnel.tls.short_id = LinkParam("sid")
        /\ Tunnel.tls.fingerprint =
              IF LinkParam("fp") # <<>> THEN LinkParam("fp") ELSE <<"chrome">>

C15_Witness ==
    /\ RealityParsed
    /\ Body = RealityBody("443", "value", "blank", "value", "value", <<"#", "n">>)
    /\ Tunnel.tls = [type |-> "reality", server_name |-> <<"s">>,
                     fingerprint |-> <<"chrome">>, public_key |-> <<"k+ey">>,
                     short_id |-> <<"ab">>]
    /\ Tunnel.port = 443

(***************************************************************************)
(* Claims about the subscription parsers                                   *)
(***************************************************************************)
Payload == parser.input
ConvertibleEntry(entry) == entry.type \in {"vless", "trojan"} /\ entry.port \in {"443", "80"}
ConvertibleLine(line) == parse_share_link(line).value # <<>>
EntryTunnels(entries) == [i \in 1..Len(entries) |-> EntryTunnel(entries[i])]
LineTunnels(lines) == [i \in 1..Len(lines) |-> parse_share_link(lines[i]).value[1]]
ConvertibleEntries == EntryTunnels(SelectSeq(Payload.entries, ConvertibleEntry))
ConvertibleLines == LineTunnels(SelectSeq(Payload.lines, ConvertibleLine))

\* C16: each subscription parser skips an entry that cannot be converted by
\* itself: the returned list is the tunnels of all well-formed entries of the
\* payload, those after a bad entry included, in payload order.
C16_BadEntrySkippedAlone ==
    /\ (parser.fn = "parse_base64_subscription" /\ Payload.shape = "base64")
          => parser.result = ConvertibleLines
    /\ (parser.fn = "parse_clash_subscription" /\ Payload.shape = "clash" /\ Payload.valid)
          => parser.result = ConvertibleEntries
    /\ (parser.fn = "parse_singbox_subscription" /\ Payload.shape = "json" /\ Payload.valid)
          => parser.result = ConvertibleEntries

ContentParsed == parser.fn = "parse_subscription_content" /\ Payload.hint = "auto"

\* C17 as stated: with hint auto, '{' content goes to the JSON parser,
\* 'proxies:' content to the Clash parser, any other content is base64-decoded
\* and its lines parsed as share links, and the result is empty when the base64
\* attempt yields no tunnel.
C17_AutoDispatchEmptyAfterBase64 ==
    ContentParsed =>
        CASE Payload.shape = "json" -> parser.result = parse_singbox_subscription(Payload)
          [] Payload.shape = "clash" -> parser.result = parse_clash_subscription(Payload)
          [] OTHER -> parser.result = parse_base64_subscription(Payload)

\* C17 amended: as stated, except that when the base64 attempt yields no tunnel
\* the lines of the content itself are parsed as share links, and the result is
\* empty only when none of them parses.
C17_AutoDispatchRawLinksAfterBase64 ==
    ContentParsed =>
        CASE Payload.shape = "json" -> parser.result = parse_singbox_subscription(Payload)
          [] Payload.shape = "clash" -> parser.result = parse_clash_subscription(Payload)
          [] Payload.shape = "base64" /\ ConvertibleLines # <<>>
                -> parser.result = ConvertibleLines
          [] Payload.shape = "plain" -> parser.result = ConvertibleLines
          [] OTHER -> parser.result = <<>>

C17_Witness ==
    /\ ContentParsed
    /\ Payload.shape = "plain"
    /\ Len(Payload.lines) = 2
    /\ Len(parser.result) = 2

(***************************************************************************)
(* process_service on a service with several list sources                  *)
(***************************************************************************)
ListSources ==
    << [url |-> "a", type |-> "auto"], [url |-> "b", type |-> "plain"],
       [url |-> "c", type |-> "domains"] >>

\* the service as services.json may hold it
ListServices ==
    {[id |-> "s3", enabled |-> enabled, domains |-> domains, custom_domains |-> {},
      custom_ips |-> {}, ip_ranges |-> ip_ranges, sources |-> ListSources] :
        enabled \in BOOLEAN, domains \in {{}, {"d1"}}, ip_ranges \in {{}, {"c5"}}}

ListDownloads ==
    {dl \in DownloadsOf({"a", "b", "c"}) :
        \A url \in DOMAIN dl : dl[url].items \subseteq SourceCidrs[url]}

ProcessService(service, dl) ==
    /\ lists' = process_service(lists, service, dl)
    /\ last' = [op |-> "process_service", arg |-> service, before |-> <<lists>>,
                fetches |-> <<dl>>]
    /\ UNCHANGED <<devices, servicesFile, nft, compiled>>
    /\ UNCHANGED <<tunnels, groups, subscriptions, routing_rules, active_outbound, config,
                   group_outbounds, singbox, parser>>
    /\ UNCHANGED runVars

InitUpdate ==
    /\ InitRun
    /\ devices = <<>>
    /\ servicesFile = TRUE
    /\ lists = [s \in {"s3"} |-> {}]
    /\ nft = NftInit
    /\ compiled = FALSE
    /\ tunnels = <<>>
    /\ groups = <<>>
    /\ subscriptions = <<>>
    /\ routing_rules = [default_outbound |-> None, rules |-> <<>>]
    /\ active_outbound = None
    /\ config = None
    /\ group_outbounds = <<>>
    /\ last = [op |-> None, arg |-> None, before |-> <<>>, fetches |-> <<>>]
    /\ singbox = NoFiles
    /\ parser = NoCall

NextUpdate == \E service \in ListServices, dl \in ListDownloads : ProcessService(service, dl)

SpecUpdate == InitUpdate /\ [][NextUpdate]_vars

(***************************************************************************)
(* Update runs in which one nft command of the cleanup pass fails          *)
(***************************************************************************)
\* pinpoint-update.py update on the stored devices ds
FailingRun(ds, failed) ==
    /\ Idle
    /\ Len(nft.chain) <= MaxChainLen
    /\ \E dl \in Downloads :
          /\ lists' = update_all_lists(lists, servicesFile, dl)
          /\ nft' = GenerateDeviceRules(load_nftables_sets(nft, lists'), ds, lists', failed)
    /\ compiled' = TRUE
    /\ last' = [op |-> "generate_device_rules", arg |-> failed, before |-> <<nft>>,
                fetches |-> <<>>]
    /\ UNCHANGED <<tunnels, groups, subscriptions, routing_rules, active_outbound, config,
                   group_outbounds, singbox, parser>>
    /\ UNCHANGED <<servicesFile, runVars>>

FailingCreate(name, mode, failed) ==
    /\ Len(devices) < MaxPipelineDevices
    /\ StoreCreate(name, "192.168.1.10", mode, PipelineContent)
    /\ FailingRun(devices', failed)

FailingUpdate(device_id, update, failed) ==
    /\ StoreUpdate(device_id, update)
    /\ FailingRun(devices', failed)

FailingDelete(device_id, failed) ==
    /\ StoreDelete(device_id)
    /\ FailingRun(devices', failed)

FailingUpdateLists(failed) ==
    /\ UNCHANGED devices
    /\ FailingRun(devices, failed)

InitFailing == Init /\ servicesFile = TRUE

NextFailing ==
    \E failed \in CleanupCommands \cup {None} :
        \/ \E name \in Names, mode \in PipelineModes : FailingCreate(name, mode, failed)
        \/ \E device_id \in DeviceIds, e \in BOOLEAN :
              FailingUpdate(device_id, [enabled |-> e], failed)
        \/ \E device_id \in DeviceIds : FailingDelete(device_id, failed)
        \/ FailingUpdateLists(failed)

SpecFailing == InitFailing /\ [][NextFailing]_vars

(***************************************************************************)
(* The device handlers on devices with colliding names                     *)
(***************************************************************************)
DeviceNames == {<<"T", "v">>, <<"t", "v", "_", "1">>}
NoContent == [services |-> <<>>, custom_domains |-> <<>>, custom_ips |-> <<>>]

DeviceCall(op, arg) ==
    /\ last' = [op |-> op, arg |-> arg, before |-> <<devices>>, fetches |-> <<>>]
    /\ UNCHANGED <<tunnels, groups, subscriptions, routing_rules, active_outbound, config,
                   group_outbounds, singbox, parser>>
    /\ UNCHANGED <<servicesFile, runVars>>

CreateNamed(name) ==
    /\ Idle
    /\ Len(devices) < MaxNamedDevices
    /\ devices' = Append(devices, NewDevice(name, "192.168.1.10", "default", NoContent,
                                           {devices[i].id : i \in 1..Len(devices)}))
    /\ apply_device_routing(devices')
    /\ DeviceCall("create_device", name)

UpdateNamed(device_id, update) ==
    /\ Idle
    /\ StoreUpdate(device_id, update)
    /\ apply_device_routing(devices')
    /\ DeviceCall("update_device", device_id)

DeleteNamed(device_id) ==
    /\ Idle
    /\ StoreDelete(device_id)
    /\ apply_device_routing(devices')
    /\ DeviceCall("delete_device", device_id)

NextDevices ==
    \/ \E name \in DeviceNames : CreateNamed(name)
    \/ \E device_id \in DeviceIds, name \in DeviceNames : UpdateNamed(device_id, [name |-> name])
    \/ \E device_id \in DeviceIds : DeleteNamed(device_id)

SpecDevices == InitFailing /\ [][NextDevices]_vars

(***************************************************************************)
(* backend/main.py: toggle_tunnel and delete_tunnel on stored tunnels,     *)
(* groups and routing rules                                                *)
(***************************************************************************)
ToggleRules == {<<>>, <<[enabled |-> TRUE, outbound |-> DirectOut,
                        domains |-> <<<<"a">>>>, domain_keywords |-> <<>>]>>}
ToggleOutcomes == {"restart_nonzero", "ok"}

\* settings.get("active_outbound", "direct")
ActiveSetting == IF active_outbound = None THEN <<"direct">> ELSE active_outbound

\* the handler answers ok whether or not the try block got to apply; fetches
\* keeps the config apply_singbox_config was called with, if it was called
toggle_tunnel(tunnel_id, outcome) ==
    /\ FirstIndex(tunnels, tunnel_id) # 0
    /\ tunnels' = [tunnels EXCEPT ![FirstIndex(tunnels, tunnel_id)].enabled = ~@]
    /\ LET generated == generate_singbox_config(tunnels', groups, ActiveSetting, routing_rules)
       IN /\ config' = generated
          /\ group_outbounds' = GroupOutbounds(groups, tunnels')
          /\ IF generated.error # None
             THEN /\ singbox' = singbox
                  /\ CallFetching("toggle_tunnel", tunnel_id, <<>>)
             ELSE /\ singbox' = apply_singbox_config(singbox, generated, outcome)
                  /\ CallFetching("toggle_tunnel", tunnel_id, <<generated>>)
    /\ UNCHANGED <<groups, subscriptions, routing_rules, active_outbound, parser>>
    /\ UNCHANGED <<devVars, runVars>>

InitToggle ==
    /\ InitRun
    /\ InitDev
    /\ servicesFile = TRUE
    /\ \E flags \in TunnelInputs : tunnels = StoredTunnels(flags)
    /\ groups \in GroupInputs
    /\ subscriptions = <<>>
    /\ \E rules \in ToggleRules : routing_rules = [default_outbound |-> None, rules |-> rules]
    /\ active_outbound \in {None, DirectOut}
    /\ config = None
    /\ group_outbounds = <<>>
    /\ last = [op |-> None, arg |-> None, before |-> <<>>, fetches |-> <<>>]
    /\ singbox = NoFiles
    /\ parser = NoCall

NextToggle ==
    \/ \E tunnel_id \in TunnelIdsUsed, outcome \in ToggleOutcomes :
          toggle_tunnel(tunnel_id, outcome)
    \/ \E tunnel_id \in TunnelIdsUsed \cup {"tx"} : delete_tunnel(tunnel_id)

SpecToggle == InitToggle /\ [][NextToggle]_vars

(***************************************************************************)
(* Claims about the update run                                             *)
(***************************************************************************)
\* C18: every device create, update or delete that changes the stored devices
\* has, when it returns, recompiled the packet-filter device rules from the
\* devices as just stored (clean_device_rules and the per-device compilation
\* ran), whether or not services.json exists in the data directory.
C18_DeviceChangeRecompiles ==
    [][devices' # devices =>
          /\ compiled'
          /\ nft' = generate_device_rules(load_nftables_sets(nft, lists'), devices', lists')]_vars

Processed == last.op = "process_service" /\ last.arg.enabled
Fetched(url) == last.fetches[1][url]
SourceFile(source) ==
    IF source.type = "domains" THEN DomainsFile(last.arg.id) ELSE last.arg.id
StoredBefore(source) == ListFile(last.before[1], SourceFile(source)) \cap SourceCidrs[source.url]
StoredNow(source) == ListFile(lists, SourceFile(source))

\* C19: when the download of one source of a service fails during a run, what
\* the service's other sources delivered is stored, and the CIDRs (or domains)
\* stored for the failed source by an earlier run are still in the service's
\* list file after the run.
C19_FailedSourceKeepsStored ==
    Processed =>
        \A i \in 1..Len(ListSources) :
            IF Fetched(ListSources[i].url).ok
            THEN Fetched(ListSources[i].url).items \subseteq StoredNow(ListSources[i])
            ELSE StoredBefore(ListSources[i]) \subseteq StoredNow(ListSources[i])

Regenerated == last.op = "generate_device_rules"
DeviceRules(n) == SelectSeq(n.chain, HasDeviceMarker)
RulesOfRun ==
    DeviceRules(generate_device_rules(load_nftables_sets(last.before[1], lists), devices, lists))

\* C20: a failure of one nft command of the regeneration does not abort it: the
\* failed command is skipped and every remaining cleanup and add command is
\* still issued, so the chain holds the device rules the run adds and no rule
\* of an earlier run, except the one rule whose own deletion failed.
C20_FailedCommandLeavesNoStaleRule ==
    (Regenerated /\ last.arg # None) =>
        Len(DeviceRules(nft)) <= Len(RulesOfRun) + (IF last.arg = "delete_rule" THEN 1 ELSE 0)

StoredIds(ds) == [i \in 1..Len(ds) |-> ds[i].id]
IdsBefore == Range(StoredIds(last.before[1]))
\* the slug, or the slug with the smallest suffix _k that is not in use
ExpectedId(name) ==
    IF Slug(name) \notin IdsBefore THEN Slug(name)
    ELSE Suffixed(Slug(name),
                  CHOOSE k \in 1..Len(Digits) :
                      /\ Suffixed(Slug(name), k) \notin IdsBefore
                      /\ \A j \in 1..(k - 1) : Suffixed(Slug(name), j) \in IdsBefore)

\* C21: after any sequence of device create, update and delete operations the
\* stored ids are pairwise distinct; create assigns the slug of the name or,
\* when it is taken, the slug with the smallest suffix _1, _2, ... not in use;
\* update never changes an id.
C21_DeviceIdsDistinct ==
    /\ \A i, j \in 1..Len(devices) : devices[i].id = devices[j].id => i = j
    /\ last.op = "create_device" =>
          /\ SubSeq(devices, 1, Len(devices) - 1) = last.before[1]
          /\ devices[Len(devices)].id = ExpectedId(last.arg)
    /\ last.op = "update_device" => StoredIds(devices) = StoredIds(last.before[1])

\* C21 witness: a third device named Tv stored as tv_2 because tv and tv_1 are taken
C21_Witness ==
    /\ last.op = "create_device"
    /\ last.arg = <<"T", "v">>
    /\ Len(devices) = 3
    /\ devices[3].id = <<"t", "v", "_", "2">>
    /\ IdsBefore = {<<"t", "v">>, <<"t", "v", "_", "1">>}

(***************************************************************************)
(* Claims about apply_singbox_config                                       *)
(***************************************************************************)
Applied == last.op = "apply"
AppliedDoc == last.fetches

Honoured(rule) ==
    /\ rule.enabled
    /\ rule.outbound \in valid_tags(tunnels, groups)
    /\ HasMatchers(singbox_rule(rule))
HonouredRules == SelectSeq(routing_rules.rules, Honoured)

\* C23: route.rules of a generated config is one rule for each routing rule that
\* is enabled, targets a valid tag and has a non-empty matcher, in the order of
\* the input list, each with its matcher lists (domain, domain_suffix without
\* the '*.' or '.' prefix, domain_keyword), followed by the default tun-inbound
\* rule when one is emitted.
C23_RouteRulesInPriorityOrder ==
    Generated =>
        /\ config.error = None
        /\ config.route_rules =
              [i \in 1..Len(HonouredRules) |-> singbox_rule(HonouredRules[i])]
              \o DefaultAppends(tunnels, routing_rules, active_outbound,
                                valid_tags(tunnels, groups))

Emitted(group, type) ==
    \E k \in 1..Len(config.outbounds) :
        config.outbounds[k].tag = group.tag /\ config.outbounds[k].type = type

\* C24: in the generated config a selector group is emitted with default equal
\* to the tag of its first enabled member, or with default direct-out when it
\* has no enabled member; a urltest or fallback group with no enabled member is
\* not emitted.
C24_SelectorEmittedWithDefault ==
    (Generated /\ config.error = None) =>
        \A i \in 1..Len(groups) :
            IF groups[i].type = "selector"
            THEN /\ Emitted(groups[i], "selector")
                 /\ group_outbounds[i].default =
                       IF ExpectedMembers(groups[i]) # <<>>
                       THEN ExpectedMembers(groups[i])[1] ELSE DirectOut
            ELSE ExpectedMembers(groups[i]) = <<>> => ~Emitted(groups[i], "urltest")

(***************************************************************************)
(* Claims about the device sets                                            *)
(***************************************************************************)
ServiceCustomIps(svc_id) ==
    UNION {Services[i].custom_ips : i \in {j \in 1..Len(Services) : Services[j].id = svc_id}}
ListLines(svc_id) == IF svc_id \in DOMAIN lists THEN lists[svc_id] ELSE {}
ExpectedElements(device) ==
    Range(device.custom_ips)
    \cup UNION {ServiceCustomIps(svc_id) \cup ListLines(svc_id) : svc_id \in Range(device.services)}

\* C25: the elements of the device-scoped set of every enabled custom-mode
\* device are exactly the device's own custom IPs, the custom IPs of each
\* service associated with the device and the lines of each associated
\* service's CIDR list file; nothing of any other service is in the set.
C25_DeviceSetElements ==
    compiled =>
        \A i \in EnabledIn("custom") :
            /\ ExpectedElements(devices[i]) # {} => SetName(devices[i].id) \in DOMAIN nft.sets
            /\ SetName(devices[i].id) \in DOMAIN nft.sets =>
                  nft.sets[SetName(devices[i].id)] = ExpectedElements(devices[i])

\* C25 witness: a device with service s1 and custom IP c1 whose set holds c1,
\* the custom IP c3 of s1 and the downloaded c2, and nothing of s2
C25_Witness ==
    /\ compiled
    /\ \E i \in EnabledIn("custom") :
          /\ devices[i].services = <<"s1">>
          /\ devices[i].custom_ips = <<"c1">>
          /\ SetName(devices[i].id) \in DOMAIN nft.sets
          /\ nft.sets[SetName(devices[i].id)] = {"c1", "c2", "c3"}

(***************************************************************************)
(* Claims about toggle_tunnel and delete_tunnel                            *)
(***************************************************************************)
Toggled == last.op = "toggle_tunnel"
ToggledTunnel == tunnels[FirstIndex(tunnels, last.arg)]
OutboundTags(cfg) == {cfg.outbounds[k].tag : k \in 1..Len(cfg.outbounds)}

TunnelDeleted == last.op = "delete_tunnel"
GroupsBefore == last.fetches

\* C30: after delete_tunnel(id) no stored tunnel has the id and no group's
\* member list contains it, also when a group listed it more than once; all
\* other tunnels and all other group members are unchanged.
C30_DeleteTunnelRemovesEveryReference ==
    TunnelDeleted =>
        /\ tunnels = SelectSeq(last.before, LAMBDA t : t.id # last.arg)
        /\ Len(groups) = Len(GroupsBefore)
        /\ \A i \in 1..Len(groups) :
              /\ groups[i].tunnels =
                    SelectSeq(GroupsBefore[i].tunnels, LAMBDA t_id : t_id # last.arg)
              /\ [groups[i] EXCEPT !.tunnels = <<>>] = [GroupsBefore[i] EXCEPT !.tunnels = <<>>]

AllFinished == compiled /\ \A p \in Invokers : running[p] = "idle"
SingleRun == generate_device_rules(nft, devices, lists)

\* C28: when two invocations of the update pipeline overlap, with their cleanup,
\* set-reload and rule-add commands interleaved in any order, then once both
\* have finished the prerouting chain holds the device rules and device sets of
\* a single run on the same devices: no device rule duplicated or missing, and
\* no rule referring to a set that does not exist.
C28_OverlappingRunsAsSingleRun ==
    AllFinished =>
        /\ ChainContent(nft) = ChainContent(SingleRun)
        /\ DeviceSetsOf(nft) = DeviceSetsOf(SingleRun)
        /\ \A i \in 1..Len(nft.chain) :
              nft.chain[i].daddr # NoSet => nft.chain[i].daddr \in DOMAIN nft.sets

(***************************************************************************)
(* Frame of the device-rule regeneration                                   *)
(***************************************************************************)
OtherRules(n) == SelectSeq(n.chain, LAMBDA r : ~HasDeviceMarker(r))
OtherSets(n) == [s \in {x \in DOMAIN n.sets : x[1] # "device_"} |-> n.sets[s]]
SameFrame(n, m) == OtherRules(m) = OtherRules(n) /\ OtherSets(m) = OtherSets(n)

\* C29: device-rule regeneration leaves what it did not generate unchanged.
\* The cleanup pass deletes only rules that carry the 'pinpoint: device' marker
\* and only sets named device_*, and the whole of generate_device_rules leaves
\* the global marking rules (handles included) and the tunnel_nets and
\* tunnel_ips sets with their elements as they were, for the stored devices
\* and for the stores a later run may find.
C29_RegenerationFrame ==
    /\ SameFrame(nft, clean_device_rules(nft))
    /\ \A ds \in StoreVariants : SameFrame(nft, generate_device_rules(nft, ds, lists))

\* C29 witness: a compiled chain with a device's marker rules and device set
\* for the cleanup to delete, next to the global rules and a loaded tunnel_nets.
C29_Witness ==
    /\ compiled
    /\ nft.sets[<<"tunnel_nets">>] # {}
    /\ Len(OtherRules(nft)) = Len(GlobalRules)
    /\ \E i \in EnabledIn("custom") :
          /\ Len(RulesFor(nft, devices[i].id)) = 2
          /\ SetName(devices[i].id) \in DOMAIN nft.sets
          /\ clean_device_rules(nft) # nft

====
